---------------------------- MODULE Spec2Model ----------------------------
(***************************************************************************)
(* Model of the natural-language-to-SQL pipeline of crosscore/vertexai-exp *)
(* (search -> table selection -> SQL generation -> execution -> function   *)
(* dispatch), its two-tier caches, its batch drivers and its blob parser.  *)
(*                                                                         *)
(* Strings are sequences of tokens.  A marker such as "tableId:" is one    *)
(* token; " " and "\n" are the whitespace tokens.                          *)
(***************************************************************************)
EXTENDS Integers, Sequences, FiniteSets, TLC

(***************************************************************************)
(* String helpers: Python's str operations on token sequences.             *)
(***************************************************************************)

Whitespace == {" ", "\n"}

\* t in s  (t a single token)
Contains(s, t) == \E i \in 1..Len(s) : s[i] = t

\* index of the first occurrence of token t in s, 0 when absent
IndexOf(s, t) ==
    IF Contains(s, t)
    THEN CHOOSE i \in 1..Len(s) : s[i] = t /\ \A j \in 1..(i - 1) : s[j] # t
    ELSE 0

\* s.split(t, 1): one part when t is absent, else the text before and after
SplitOnce(s, t) ==
    IF Contains(s, t)
    THEN LET i == IndexOf(s, t)
         IN  << SubSeq(s, 1, i - 1), SubSeq(s, i + 1, Len(s)) >>
    ELSE << s >>

\* s.split(t): every part between occurrences of t
RECURSIVE SplitAll(_, _)
SplitAll(s, t) ==
    IF Contains(s, t)
    THEN LET i == IndexOf(s, t)
         IN  << SubSeq(s, 1, i - 1) >> \o SplitAll(SubSeq(s, i + 1, Len(s)), t)
    ELSE << s >>

\* s.replace(t, '')
Remove(s, t) == SelectSeq(s, LAMBDA x : x # t)

RECURSIVE LStrip(_)
LStrip(s) ==
    IF s # << >> /\ Head(s) \in Whitespace THEN LStrip(Tail(s)) ELSE s

RECURSIVE RStrip(_)
RStrip(s) ==
    IF s # << >> /\ s[Len(s)] \in Whitespace
    THEN RStrip(SubSeq(s, 1, Len(s) - 1))
    ELSE s

\* s.strip()
Strip(s) == RStrip(LStrip(s))

\* s.endswith(t)
EndsWith(s, t) == s # << >> /\ s[Len(s)] = t

\* sub in s  (sub a token sequence)
IsSubstring(sub, s) ==
    \E i \in 0..(Len(s) - Len(sub)) :
        \A k \in 1..Len(sub) : s[i + k] = sub[k]

\* '\n'.join(lines)
RECURSIVE JoinLines(_)
JoinLines(lines) ==
    IF lines = << >> THEN << >>
    ELSE IF Len(lines) = 1 THEN lines[1]
    ELSE lines[1] \o << "\n" >> \o JoinLines(Tail(lines))

\* the concatenation of a sequence of token sequences
RECURSIVE Concat(_)
Concat(parts) ==
    IF parts = << >> THEN << >> ELSE Head(parts) \o Concat(Tail(parts))

(***************************************************************************)
(* Table Info Parser: agent_search_from_engine.format_content.             *)
(***************************************************************************)

EmptySections ==
    [ tableId |-> << >>, description |-> << >>, category |-> << >>,
      schema |-> << >>, start_time |-> << >>, end_time |-> << >> ]

\* the schema entries: the parts of the schema text between hyphens that
\* hold both name: and type:
SchemaEntries(schema_text) ==
    LET lines == SplitAll(schema_text, "-")
        kept  == SelectSeq(lines, LAMBDA line :
                     /\ Contains(line, "name:")
                     /\ Contains(line, "type:")
                     /\ Strip(line) # << >>)
    IN  [ i \in 1..Len(kept) |-> Strip(kept[i]) ]

\* start_time and end_time out of the text after time_range:
TimeRange(time_range_text) ==
    LET none == [ start_time |-> << >>, end_time |-> << >> ]
    IN  IF ~Contains(time_range_text, "start_time:") THEN none
        ELSE
        LET start_time_parts == SplitOnce(time_range_text, "start_time:")
            remaining_text   == Strip(start_time_parts[2])
        IN  IF ~Contains(remaining_text, "end_time:") THEN none
            ELSE
            LET time_parts == SplitOnce(remaining_text, "end_time:")
                start0     == Strip(time_parts[1])
                start_time == IF EndsWith(start0, "-")
                              THEN Strip(SubSeq(start0, 1, Len(start0) - 1))
                              ELSE start0
            IN  [ start_time |-> start_time, end_time |-> Strip(time_parts[2]) ]

\* the sections dictionary format_content fills from the raw blob
ParseSections(raw) ==
    LET c0 == Remove(Remove(raw, "<b>"), "</b>")
        c1 == IF EndsWith(c0, ".") THEN SubSeq(c0, 1, Len(c0) - 1) ELSE c0
        \* tableId and the remaining content
        p1      == SplitOnce(c1, "description:")
        hasId   == Contains(c1, "tableId:") /\ Len(p1) = 2
        tableId == IF hasId THEN Strip(Remove(p1[1], "tableId:")) ELSE << >>
        c2      == IF hasId THEN Strip(p1[2]) ELSE c1
    IN  IF ~Contains(c2, "category:")
        THEN [ EmptySections EXCEPT !.tableId = tableId ]
        ELSE
        LET p2          == SplitOnce(c2, "category:")
            description == Strip(p2[1])
            c3          == Strip(p2[2])
            p3          == SplitOnce(c3, "schema:")
        IN  IF Len(p3) # 2
            THEN [ EmptySections EXCEPT !.tableId = tableId,
                                        !.description = description ]
            ELSE
            LET category       == Strip(p3[1])
                schema_content == Strip(p3[2])
                base == [ EmptySections EXCEPT !.tableId = tableId,
                                               !.description = description,
                                               !.category = category ]
            IN  IF ~Contains(schema_content, "time_range:")
                THEN base
                ELSE
                LET schema_parts    == SplitOnce(schema_content, "time_range:")
                    schema_text     == Strip(schema_parts[1])
                    time_range_text == Strip(schema_parts[2])
                    tr              == TimeRange(time_range_text)
                IN  [ base EXCEPT !.schema = SchemaEntries(schema_text),
                                  !.start_time = tr.start_time,
                                  !.end_time = tr.end_time ]

\* the formatted output built from the sections
FormatOutput(sections) ==
    JoinLines(
        << << "tableId:", " " >> \o sections.tableId,
           << "category:", " " >> \o sections.category,
           << "description:", " " >> \o sections.description,
           << "schema:" >> >>
        \o [ i \in 1..Len(sections.schema) |->
               << " ", " ", "-", " " >> \o sections.schema[i] ]
        \o << << "time_range:" >>,
              << " ", " ", "-", " ", "start_time:", " " >> \o sections.start_time,
              << " ", " ", "-", " ", "end_time:", " " >> \o sections.end_time >>)

format_content(content) == FormatOutput(ParseSections(content))


(***************************************************************************)
(* QueryGenerator / SQLQueryGeneratorTester._clean_sql_query.              *)
(***************************************************************************)

StartsWith(s, t) == s # << >> /\ s[1] = t

\* the tokens of the markdown fences: three backticks with and without sql
FenceSql == "[fence]sql"
Fence == "[fence]"

\* the cleaning with the final strip taken before the comment lines are dropped
_clean_sql_query_strip_first(query) ==
    LET unfenced      == Remove(Remove(query, FenceSql), Fence)
        lines         == SplitAll(Strip(unfenced), "\n")
        cleaned_lines == SelectSeq(lines, LAMBDA line : ~StartsWith(Strip(line), "#"))
    IN  JoinLines(cleaned_lines)

_clean_sql_query(query) ==
    LET unfenced      == Remove(Remove(query, FenceSql), Fence)
        lines         == SplitAll(unfenced, "\n")
        cleaned_lines == SelectSeq(lines, LAMBDA line : ~StartsWith(Strip(line), "#"))
    IN  Strip(JoinLines(cleaned_lines))

(***************************************************************************)
(* Python values: dictionaries, None, floats.                              *)
(***************************************************************************)

EmptyDict == [ k \in {} |-> {} ]

\* d[k] = v
Put(d, k, v) == [ x \in (DOMAIN d) \cup {k} |-> IF x = k THEN v ELSE d[x] ]

\* d.update(e)
Update(d, e) ==
    [ k \in (DOMAIN d) \cup (DOMAIN e) |-> IF k \in DOMAIN e THEN e[k] ELSE d[k] ]

None == [ kind |-> "None" ]
Str(s) == [ kind |-> "str", text |-> s ]

\* Python truthiness of an Optional[str]
Truthy(v) == v.kind = "str" /\ v.text # << >>

RECURSIVE GCD(_, _)
GCD(a, b) == IF b = 0 THEN a ELSE GCD(b, a % b)

Abs(x) == IF x < 0 THEN -x ELSE x

\* the float num/den (den > 0), in lowest terms
Float(num, den) ==
    LET g == GCD(Abs(num), den)
    IN  [ kind |-> "float", num |-> num \div g, den |-> den \div g ]

List(rows) == [ kind |-> "list", rows |-> rows ]

(***************************************************************************)
(* functions.py: QueryExecutor, DataAnalyzer, GraphGenerator.              *)
(***************************************************************************)

\* the columns of pd.DataFrame(data)
Columns(data) == UNION { DOMAIN data[i] : i \in 1..Len(data) }

RECURSIVE SumOf(_, _)
SumOf(data, column_name) ==
    IF data = << >> THEN 0
    ELSE Head(data)[column_name] + SumOf(Tail(data), column_name)

RECURSIVE SumSqOf(_, _)
SumSqOf(data, column_name) ==
    IF data = << >> THEN 0
    ELSE Head(data)[column_name] * Head(data)[column_name]
         + SumSqOf(Tail(data), column_name)

get_max_value(data, column_name) ==
    IF column_name \in Columns(data)
    THEN Float(CHOOSE m \in { data[i][column_name] : i \in 1..Len(data) } :
                   \A i \in 1..Len(data) : data[i][column_name] <= m, 1)
    ELSE None

get_min_value(data, column_name) ==
    IF column_name \in Columns(data)
    THEN Float(CHOOSE m \in { data[i][column_name] : i \in 1..Len(data) } :
                   \A i \in 1..Len(data) : data[i][column_name] >= m, 1)
    ELSE None

get_average_value(data, column_name) ==
    IF column_name \in Columns(data)
    THEN Float(SumOf(data, column_name), Len(data))
    ELSE None

DefaultThreshold == 2

\* z = |x - mean| / std (sample standard deviation) > threshold, in integers:
\* (n*x - S)^2 * (n - 1) > threshold^2 * n * (n*SS - S^2); a zero or undefined
\* deviation gives NaN, which compares false
IsOutlier(data, column_name, x, threshold) ==
    LET n  == Len(data)
        S  == SumOf(data, column_name)
        SS == SumSqOf(data, column_name)
    IN  /\ n > 1
        /\ n * SS - S * S > 0
        /\ (n * x - S) * (n * x - S) * (n - 1)
             > threshold * threshold * n * (n * SS - S * S)

detect_outliers(data, column_name, threshold) ==
    IF column_name \notin Columns(data) THEN << >>
    ELSE SelectSeq(data, LAMBDA row : IsOutlier(data, column_name, row[column_name], threshold))

\* GraphGenerator._generate_filename: base name and the second it was made in
_generate_filename(base_name, t) == [ base |-> base_name, ts |-> t ]

\* generate_time_series / generate_bar_chart: the path written, None when a
\* column is missing
GraphPath(base_name, data, x_column, y_column, t) ==
    IF x_column \notin Columns(data) \/ y_column \notin Columns(data)
    THEN None
    ELSE [ kind |-> "path", file |-> _generate_filename(base_name, t) ]

(***************************************************************************)
(* query_logger.py: QueryLogger.log_query.                                 *)
(***************************************************************************)

\* the parameters log_query declares
LogQueryParams ==
    { "question", "search_results", "selected_table", "generated_sql",
      "expected_table", "is_correct" }

\* a call with a keyword log_query does not declare raises TypeError at the
\* call, before log_query's own try block is entered
LogQueryRaises(kwargs) == ~(kwargs \subseteq LogQueryParams)

BaseColumns == 5
TestColumns == 2

\* log_query with the header written by every call
LogQueryRowsHeaderAlways(csv, question, expected_table) ==
    LET width  == IF expected_table # None THEN BaseColumns + TestColumns
                  ELSE BaseColumns
    IN  csv \o << [ kind |-> "header", width |-> width, question |-> << >> ],
                  [ kind |-> "data", width |-> width, question |-> question ] >>

\* the rows log_query appends to the CSV file
LogQueryRows(csv, question, expected_table) ==
    LET width  == IF expected_table # None THEN BaseColumns + TestColumns
                  ELSE BaseColumns
        header == IF csv = << >>
                  THEN << [ kind |-> "header", width |-> width, question |-> << >> ] >>
                  ELSE << >>
    IN  csv \o header \o << [ kind |-> "data", width |-> width, question |-> question ] >>


(***************************************************************************)
(* The state of one process and of the files it shares.                    *)
(***************************************************************************)

VARIABLES
    level,                   \* which entry points the environment calls
    now,                     \* the wall clock, in seconds
    search_results_cache,    \* SQLQueryGeneratorTester memory caches
    table_selection_cache,
    query_generation_cache,
    function_results_cache,  \* ResultGenerator memory cache
    cache_files,             \* <cache_type>_cache.json, by cache type
    csv_file,                \* ./csv/query_logs.csv: its rows
    img_files,               \* the graphs written under ./img
    sq,                      \* the running SQLQueryGeneratorTester operation
    rg,                      \* the running ResultGenerator.process_question
    qp,                      \* the running QueryProcessor.process_question
    calls,                   \* underlying calls made by the running top-level call
    drv,                     \* the running batch driver
    sleeps,                  \* time.sleep calls of the running top-level call
    json_files,              \* the result files written under ./json
    history,                 \* the direct calls completed so far
    fc                       \* the running format_content

vars == << level, now, search_results_cache, table_selection_cache,
           query_generation_cache, function_results_cache, cache_files,
           csv_file, img_files, sq, rg, qp, calls, drv, sleeps, json_files,
           history, fc >>

memVars  == << search_results_cache, table_selection_cache,
               query_generation_cache, function_results_cache >>
sqtMem   == << search_results_cache, table_selection_cache,
               query_generation_cache >>

CacheTypes ==
    { "search_results", "table_selection", "query_generation", "function_results" }

(***************************************************************************)
(* Bounds and the values the environment supplies.                         *)
(***************************************************************************)

\* direct calls of cached operations in one run
MaxCalls == 2

Q1 == << "a" >>
Q2 == << "a", "_", "b" >>
Questions == { Q1, Q2 }

Sql1 == << "c" >>
Sql2 == << "b", "_", "c" >>

\* a question and a query whose plain concatenation is that of Q1 and Sql2
Q3 == << "a", "b" >>
Sql3 == << "_", "c" >>

\* (question, SQL) pairs of direct process_question calls; the second and
\* the third make the same key, the second and the fourth the same plain
\* concatenation
DirectPairs ==
    IF level = "rg"
    THEN { << Q1, Sql1 >>, << Q1, Sql2 >>, << Q2, Sql1 >>, << Q3, Sql3 >> }
    ELSE { << Q1, Sql1 >>, << Q1, Sql2 >>, << Q2, Sql1 >> }

Row5 == << [ qty |-> 5 ] >>

\* what the warehouse does with a query: an error, no rows, rows
WarehouseOutcomes ==
    IF level \in { "ops", "rg" }
    THEN { [ kind |-> "error" ],
           [ kind |-> "rows", rows |-> << >> ],
           [ kind |-> "rows", rows |-> Row5 ] }
    ELSE { [ kind |-> "error" ], [ kind |-> "rows", rows |-> Row5 ] }

Analyze(analysis_type, column_name) ==
    [ kind |-> "call", name |-> "analyze_data",
      args |-> [ analysis_type |-> analysis_type, column_name |-> column_name ] ]

Graph(graph_type, x_column) ==
    [ kind |-> "call", name |-> "generate_graph",
      args |-> [ graph_type |-> graph_type, x_column |-> x_column,
                 y_column |-> "qty", title |-> "title" ] ]

\* what the model answers to the function-selection prompt: an API error, a
\* response without candidates, plain text, or a function call
FunctionResponses ==
    IF level = "rg"
    THEN { [ kind |-> "raise" ], [ kind |-> "malformed" ], [ kind |-> "text" ],
           [ kind |-> "call", name |-> "execute_query", args |-> EmptyDict ],
           Analyze("max", "qty"), Analyze("min", "qty"),
           Analyze("average", "qty"), Analyze("outliers", "qty"),
           Analyze("max", "zzz"), Analyze("median", "qty"),
           Graph("time_series", "qty"), Graph("bar_chart", "qty"),
           Graph("time_series", "zzz"), Graph("pie", "qty") }
    ELSE IF level = "ops"
    THEN { [ kind |-> "raise" ], Analyze("max", "qty"), Analyze("median", "qty"),
           Graph("time_series", "qty") }
    ELSE { Analyze("max", "qty"), Analyze("median", "qty") }

\* what the model answers to the final-answer prompt
AnswerResponses ==
    IF level \in { "ops", "rg" }
    THEN { [ kind |-> "raise" ], [ kind |-> "text", text |-> << "answer" >> ] }
    ELSE { [ kind |-> "text", text |-> << "answer" >> ] }

(***************************************************************************)
(* ResultGenerator.process_question, step by step.                         *)
(***************************************************************************)

\* the default of process_question's request_wait parameter
RGRequestWait == 3

\* cache_key = f"{question}_{generated_sql}"
\* the key as the plain concatenation
CacheKeyPlain(question, generated_sql) == question \o generated_sql

CacheKey(question, generated_sql) == question \o << "_" >> \o generated_sql

RGIdle == [ pc |-> "idle" ]

\* warehouse counts the queries, rows those of them that returned rows
NoCalls == [ search |-> 0, model |-> 0, warehouse |-> 0, rows |-> 0 ]

\* time.sleep calls by call site: ResultGenerator.process_question, the
\* driver's per-question wait, the driver's inter-chunk wait
NoSleeps == [ rg |-> 0, request |-> 0, batch |-> 0 ]

\* the except branch of process_question: a fresh error record
RGErrorResult(question, error, t) ==
    [ success |-> FALSE, error |-> error, question |-> question, timestamp |-> t ]

\* process_question returns `ret`; alias says whether ret is the very
\* dictionary the memory cache holds
RGReturn(frame, ret, alias) ==
    Update(frame, [ pc |-> "done", ret |-> ret, alias |-> alias ])

\* lines 211-219: an exception raised at stage frame.pc ends the call with
\* an error record
RGRaise(frame, error) ==
    RGReturn([ frame EXCEPT !.raised_at = frame.pc ],
             RGErrorResult(frame.args.question, error, now), FALSE)

\* lines 163-174: the memory check, then the file check
RGEnter(args, caller) ==
    LET cache_key == CacheKey(args.question, args.generated_sql)
        frame == [ pc |-> "execute", caller |-> caller, args |-> args,
                   cache_key |-> cache_key, cache |-> EmptyDict,
                   events |-> << >>, hit |-> "none", raised_at |-> "none",
                   stored |-> FALSE,
                   entry_memory |-> function_results_cache,
                   entry_file |-> cache_files["function_results"] ]
    IN  IF cache_key \in DOMAIN function_results_cache
        THEN /\ rg' = RGReturn([ frame EXCEPT !.hit = "memory" ],
                               function_results_cache[cache_key], TRUE)
             /\ UNCHANGED function_results_cache
        ELSE LET cache == cache_files["function_results"]
             IN  IF cache_key \in DOMAIN cache
                 THEN /\ function_results_cache' =
                            Put(function_results_cache, cache_key, cache[cache_key])
                      /\ rg' = RGReturn([ frame EXCEPT !.hit = "file" ],
                                        cache[cache_key], TRUE)
                 ELSE /\ rg' = [ frame EXCEPT !.cache = cache ]
                      /\ UNCHANGED function_results_cache

\* QueryExecutor.execute_query: the rows, None on any error
execute_query(outcome) ==
    IF outcome.kind = "error" THEN None ELSE List(outcome.rows)

\* a variant that takes only None for a failed query
NotRowsNoneOnly(query_result) == query_result = None

\* Python's `not query_result`: None, or an empty list
NotRows(query_result) == query_result = None \/ query_result.rows = << >>

\* lines 176-181: run the query; no rows is an exception; then sleep
RGExecuteQuery ==
    /\ rg.pc = "execute"
    /\ \E outcome \in WarehouseOutcomes :
         LET query_result == execute_query(outcome)
             frame == Update(rg, [ events |-> Append(rg.events, "query"),
                                   query_result |-> query_result ])
         IN  /\ calls' = [ calls EXCEPT
                             !.warehouse = @ + 1,
                             !.rows = @ + (IF NotRows(query_result) THEN 0 ELSE 1) ]
             /\ IF NotRows(query_result)
                THEN /\ rg' = RGRaise(frame, "Failed to execute query")
                     /\ UNCHANGED << now, sleeps >>
                ELSE /\ rg' = Update(frame, [ pc |-> "select" ])
                     /\ now' = now + RGRequestWait
                     /\ sleeps' = [ sleeps EXCEPT !.rg = @ + 1 ]
    /\ UNCHANGED << level, memVars, cache_files, csv_file, img_files, sq,
                    qp, history, fc,
                    drv, json_files >>

\* lines 183-185: the function-selection model call
RGSelectFunction ==
    /\ rg.pc = "select"
    /\ \E response \in FunctionResponses :
         LET frame == Update(rg, [ events |-> Append(rg.events, "select") ])
         IN  /\ calls' = [ calls EXCEPT !.model = @ + 1 ]
             /\ IF response.kind = "raise"
                THEN rg' = RGRaise(frame, "model error")
                ELSE rg' = Update(frame, [ pc |-> "dispatch", response |-> response ])
    /\ UNCHANGED << level, now, memVars, cache_files, csv_file, img_files, sq,
                    qp, history, fc,
                    drv, json_files, sleeps >>

AnalysisTypes == { "max", "min", "average", "outliers" }
GraphTypes == { "time_series", "bar_chart" }

\* a variant that answers an unknown analysis type with no result
_handle_analysis_function_lenient(args, data) ==
    LET analysis_type == args.analysis_type
        column_name   == args.column_name
    IN  [ raised |-> FALSE,
          function_result |->
              CASE analysis_type = "max" -> get_max_value(data, column_name)
                [] analysis_type = "min" -> get_min_value(data, column_name)
                [] analysis_type = "average" -> get_average_value(data, column_name)
                [] analysis_type = "outliers" ->
                       List(detect_outliers(data, column_name, DefaultThreshold))
                [] OTHER -> None,
          output_file |-> None ]

\* _handle_analysis_function: function_result, or raised for an unknown type
_handle_analysis_function(args, data) ==
    LET analysis_type == args.analysis_type
        column_name   == args.column_name
    IN  IF analysis_type \notin AnalysisTypes
        THEN [ raised |-> TRUE, error |-> "Unknown analysis type" ]
        ELSE [ raised |-> FALSE,
               function_result |->
                   CASE analysis_type = "max" -> get_max_value(data, column_name)
                     [] analysis_type = "min" -> get_min_value(data, column_name)
                     [] analysis_type = "average" -> get_average_value(data, column_name)
                     [] analysis_type = "outliers" ->
                            List(detect_outliers(data, column_name, DefaultThreshold)),
               output_file |-> None ]

\* _handle_graph_function: output_file, or raised for an unknown type
_handle_graph_function(args, data) ==
    IF args.graph_type \notin GraphTypes
    THEN [ raised |-> TRUE, error |-> "Unknown graph type" ]
    ELSE [ raised |-> FALSE,
           function_result |-> None,
           output_file |-> GraphPath(args.graph_type, data, args.x_column,
                                     args.y_column, now) ]

\* _process_function_calls lines 243-265: the result so far, or raised
Dispatch(response, query_result) ==
    LET base == [ raised |-> FALSE, dispatched |-> FALSE, executed_function |-> None,
                  function_result |-> None, output_file |-> None ]
    IN  IF response.kind = "malformed"
        THEN [ raised |-> TRUE, dispatched |-> FALSE, error |-> "list index out of range" ]
        ELSE IF response.kind = "text" THEN base
        ELSE
        LET named == [ base EXCEPT !.executed_function = Str(<< response.name >>) ]
            handled ==
                IF response.name = "analyze_data"
                THEN _handle_analysis_function(response.args, query_result)
                ELSE _handle_graph_function(response.args, query_result)
        IN  IF response.name \notin { "analyze_data", "generate_graph" } THEN named
            ELSE IF handled.raised
            THEN [ raised |-> TRUE, dispatched |-> TRUE, error |-> handled.error ]
            ELSE [ named EXCEPT !.dispatched = TRUE,
                                !.function_result = handled.function_result,
                                !.output_file = handled.output_file ]

\* the function dispatch of _process_function_calls
RGDispatch ==
    /\ rg.pc = "dispatch"
    /\ LET d == Dispatch(rg.response, rg.query_result.rows)
           frame == IF d.dispatched
                    THEN Update(rg, [ events |-> Append(rg.events, "dispatch") ])
                    ELSE rg
       IN  IF d.raised
           THEN /\ rg' = RGRaise(frame, d.error)
                /\ UNCHANGED img_files
           ELSE /\ rg' = Update(frame,
                        [ pc |-> "compose",
                          result |-> [ success |-> TRUE,
                                       executed_function |-> d.executed_function,
                                       function_result |-> d.function_result,
                                       output_file |-> d.output_file,
                                       final_answer |-> None ] ])
                /\ img_files' = IF d.output_file = None THEN img_files
                                ELSE img_files \cup { d.output_file.file }
    /\ UNCHANGED << level, now, memVars, cache_files, csv_file, sq, calls,
                    qp, history, fc,
                    drv, json_files, sleeps >>

\* a variant that asks the model again when the final-answer call fails
RGComposeRetry ==
    /\ rg.pc = "compose"
    /\ \E response \in AnswerResponses :
         LET frame == Update(rg, [ events |-> Append(rg.events, "compose") ])
         IN  /\ calls' = [ calls EXCEPT !.model = @ + 1 ]
             /\ IF response.kind = "raise"
                THEN rg' = frame
                ELSE rg' = Update(frame,
                         [ pc |-> "save",
                           result |-> [ rg.result EXCEPT
                                          !.final_answer = Str(response.text) ] ])
    /\ UNCHANGED << level, now, memVars, cache_files, csv_file, img_files, sq,
                    qp, history, fc, drv, json_files, sleeps >>

\* _process_function_calls lines 267-272: the final-answer model call
RGCompose ==
    /\ rg.pc = "compose"
    /\ \E response \in AnswerResponses :
         LET frame == Update(rg, [ events |-> Append(rg.events, "compose") ])
         IN  /\ calls' = [ calls EXCEPT !.model = @ + 1 ]
             /\ IF response.kind = "raise"
                THEN rg' = RGRaise(frame, "model error")
                ELSE rg' = Update(frame,
                         [ pc |-> "save",
                           result |-> [ rg.result EXCEPT
                                          !.final_answer = Str(response.text) ] ])
    /\ UNCHANGED << level, now, memVars, cache_files, csv_file, img_files, sq,
                    qp, history, fc,
                    drv, json_files, sleeps >>

\* lines 190-204: complete the result, store it in memory and in the file
RGSaveCache ==
    /\ rg.pc = "save"
    /\ LET result == Update(rg.result,
                       [ question |-> rg.args.question,
                         search_results |-> rg.args.search_results,
                         selected_table |-> rg.args.selected_table,
                         generated_sql |-> rg.args.generated_sql,
                         expected_table |-> rg.args.expected_table,
                         table_selection_is_correct |->
                             rg.args.table_selection_is_correct,
                         timestamp |-> now ])
           cache == Put(rg.cache, rg.cache_key, result)
       IN  /\ function_results_cache' =
                 Put(function_results_cache, rg.cache_key, result)
           /\ cache_files' = [ cache_files EXCEPT !["function_results"] = cache ]
           /\ rg' = Update(rg, [ pc |-> "log", result |-> result, cache |-> cache,
                                 stored |-> TRUE,
                                 events |-> Append(rg.events, "save") ])
    /\ UNCHANGED << level, now, sqtMem, csv_file, img_files, sq, calls,
                    qp, history, fc,
                    drv, json_files, sleeps >>

\* the keywords _log_results passes to log_query
RGLogKwargs ==
    { "question", "search_results", "selected_table", "generated_sql",
      "expected_table", "is_correct", "executed_function", "function_result",
      "final_answer", "output_file", "timestamp" }

\* lines 206-209: log the result and return it
RGLogResults ==
    /\ rg.pc = "log"
    /\ IF LogQueryRaises(RGLogKwargs)
       THEN /\ rg' = RGRaise(rg, "log_query() got an unexpected keyword argument")
            /\ UNCHANGED csv_file
       ELSE /\ csv_file' = LogQueryRows(csv_file, rg.result.question,
                                        rg.result.expected_table)
            /\ rg' = RGReturn(Update(rg, [ events |-> Append(rg.events, "log") ]),
                              rg.result, TRUE)
    /\ UNCHANGED << level, now, memVars, cache_files, img_files, sq, calls,
                    qp, history, fc,
                    drv, json_files, sleeps >>


(***************************************************************************)
(* The search backend and the blobs it returns.                            *)
(***************************************************************************)

Markers ==
    { "description:", "category:", "schema:", "time_range:", "start_time:",
      "end_time:" }

\* a raw single-line blob with the sections in the order of the text files
\* the catalog is built from; `missing` is a marker left out, or "none"
MakeBlob(tableId, description, category, schema, start_time, end_time, missing) ==
    LET M(m) == IF m = missing THEN << >> ELSE << m >>
    IN  << "tableId:", " " >> \o tableId \o << " " >>
        \o M("description:") \o << " " >> \o description \o << " " >>
        \o M("category:") \o << " " >> \o category \o << " " >>
        \o M("schema:")
        \o Concat([ i \in 1..Len(schema) |-> << " ", "-", " " >> \o schema[i] ])
        \o << " " >> \o M("time_range:")
        \o << " ", "-", " " >> \o M("start_time:") \o << " " >> \o start_time
        \o << " ", "-", " " >> \o M("end_time:") \o << " " >> \o end_time

Field(name, type) == << "name:", " ", name, ",", " ", "type:", " ", type >>

T1 == << "t", "1" >>
T2 == << "t", "2" >>

Blob1 == MakeBlob(T1, << "d" >>, << "c" >>, << Field("qty", "INTEGER") >>,
                  << "s" >>, << "e" >>, "none")
Blob2 == MakeBlob(T2, << "d" >>, << "c" >>, << Field("day", "DATE") >>,
                  << "s" >>, << "e" >>, "none")

\* what the search backend does with a query: an HTTP error, or the
\* extractive answers of the documents found
SearchOutcomes ==
    CASE level = "batch" ->
           { [ kind |-> "raise" ], [ kind |-> "answers", answers |-> << Blob1 >> ] }
      [] level = "question" ->
           { [ kind |-> "raise" ],
             [ kind |-> "answers", answers |-> << << >> >> ],
             [ kind |-> "answers", answers |-> << Blob2, Blob1 >> ] }
      [] OTHER ->
           { [ kind |-> "raise" ],
             [ kind |-> "answers", answers |-> << << >> >> ],
             [ kind |-> "answers", answers |-> << Blob1 >> ],
             [ kind |-> "answers", answers |-> << Blob2, Blob1 >> ] }

\* search_sample lines 61-80: one result per non-empty answer, formatted
search_sample(outcome) ==
    LET answers == SelectSeq(outcome.answers, LAMBDA answer : answer # << >>)
    IN  [ i \in 1..Len(answers) |->
            [ table_name |-> "title", content |-> format_content(answers[i]) ] ]

\* what the model answers to the table-selection prompt
SelectionResponses ==
    CASE level = "batch" ->
           { [ kind |-> "text", text |-> T1 ], [ kind |-> "text", text |-> << "x" >> ] }
      [] level = "question" ->
           { [ kind |-> "raise" ],
             [ kind |-> "text", text |-> T1 \o << "\n" >> ],
             [ kind |-> "text", text |-> << "t" >> ],
             [ kind |-> "text", text |-> << "x" >> ],
             [ kind |-> "text", text |-> << " " >> ] }
      [] OTHER ->
           { [ kind |-> "raise" ],
             [ kind |-> "text", text |-> T1 \o << "\n" >> ],
             [ kind |-> "text", text |-> T2 ],
             [ kind |-> "text", text |-> << "x" >> ],
             [ kind |-> "text", text |-> << " " >> ] }

\* what the model answers to the SQL-generation prompt
QueryResponses ==
    IF level = "batch"
    THEN { [ kind |-> "text", text |-> << FenceSql, "\n", "c", "\n", Fence >> ] }
    ELSE { [ kind |-> "raise" ],
           [ kind |-> "text", text |-> << FenceSql, "\n", "c", "\n", Fence >> ],
           [ kind |-> "text", text |-> << "#", " ", "c" >> ] }

(***************************************************************************)
(* SQLQueryGeneratorTester: get_search_results, select_table and           *)
(* generate_query, each in two steps (the lookup, then the underlying      *)
(* call and the save).                                                     *)
(***************************************************************************)

SQIdle == [ pc |-> "idle" ]

CacheTypeOf(op) ==
    CASE op = "get_search_results" -> "search_results"
      [] op = "select_table" -> "table_selection"
      [] op = "generate_query" -> "query_generation"

\* the table-selection key made of the question and the candidates
SQKeyWithCandidates(op, args) ==
    CASE op = "generate_query" -> args.question \o << "_" >> \o args.table_info
      [] op = "select_table" -> << args.question, args.search_results >>
      [] OTHER -> args.question

\* the cache key of each operation
SQKey(op, args) ==
    IF op = "generate_query"
    THEN args.question \o << "_" >> \o args.table_info
    ELSE args.question

MemoryOf(op) ==
    CASE op = "get_search_results" -> search_results_cache
      [] op = "select_table" -> table_selection_cache
      [] op = "generate_query" -> query_generation_cache

\* memory caches after the running operation stored v under k
SQStore(op, k, v) ==
    /\ search_results_cache' =
         IF op = "get_search_results" THEN Put(search_results_cache, k, v)
         ELSE search_results_cache
    /\ table_selection_cache' =
         IF op = "select_table" THEN Put(table_selection_cache, k, v)
         ELSE table_selection_cache
    /\ query_generation_cache' =
         IF op = "generate_query" THEN Put(query_generation_cache, k, v)
         ELSE query_generation_cache

SQReturn(frame, ret) == Update(frame, [ pc |-> "done", ret |-> ret ])

\* the memory check, then the file check, of a cached operation
SQEnter(op, args, caller) ==
    LET cache_key == SQKey(op, args)
        frame == [ pc |-> "call", op |-> op, caller |-> caller, args |-> args,
                   cache_key |-> cache_key, cache |-> EmptyDict, hit |-> "none",
                   stored |-> FALSE ]
    IN  IF cache_key \in DOMAIN MemoryOf(op)
        THEN /\ sq' = SQReturn([ frame EXCEPT !.hit = "memory" ],
                               [ raised |-> FALSE, value |-> MemoryOf(op)[cache_key] ])
             /\ UNCHANGED sqtMem
        ELSE LET cache == cache_files[CacheTypeOf(op)]
             IN  IF cache_key \in DOMAIN cache
                 THEN /\ SQStore(op, cache_key, cache[cache_key])
                      /\ sq' = SQReturn([ frame EXCEPT !.hit = "file" ],
                                        [ raised |-> FALSE, value |-> cache[cache_key] ])
                 ELSE /\ sq' = [ frame EXCEPT !.cache = cache ]
                      /\ UNCHANGED sqtMem

\* the underlying call answered `value`, stored in memory only
SQSaveMemoryOnly(value) ==
    /\ SQStore(sq.op, sq.cache_key, value)
    /\ UNCHANGED cache_files
    /\ sq' = SQReturn([ sq EXCEPT !.stored = TRUE ],
                      [ raised |-> FALSE, value |-> value ])

\* the underlying call answered `value`; the file is written with the new
\* key alone
SQSaveOnlyNewKey(value) ==
    LET cache == Put(EmptyDict, sq.cache_key, value)
    IN  /\ SQStore(sq.op, sq.cache_key, value)
        /\ cache_files' = [ cache_files EXCEPT ![CacheTypeOf(sq.op)] = cache ]
        /\ sq' = SQReturn([ sq EXCEPT !.cache = cache, !.stored = TRUE ],
                          [ raised |-> FALSE, value |-> value ])

\* the underlying call of the running operation answered `value`: store it
\* in memory and in the file, and return it
SQSaveAndReturn(value) ==
    LET cache == Put(sq.cache, sq.cache_key, value)
    IN  /\ SQStore(sq.op, sq.cache_key, value)
        /\ cache_files' = [ cache_files EXCEPT ![CacheTypeOf(sq.op)] = cache ]
        /\ sq' = SQReturn([ sq EXCEPT !.cache = cache, !.stored = TRUE ],
                          [ raised |-> FALSE, value |-> value ])

\* get_search_results lines 78-86; an error of search_sample propagates
SQSearch ==
    /\ sq.pc = "call" /\ sq.op = "get_search_results"
    /\ calls' = [ calls EXCEPT !.search = @ + 1 ]
    /\ \E outcome \in SearchOutcomes :
         IF outcome.kind = "raise"
         THEN /\ sq' = SQReturn(sq, [ raised |-> TRUE, error |-> "HTTPError" ])
              /\ UNCHANGED << sqtMem, cache_files >>
         ELSE SQSaveAndReturn(search_sample(outcome))
    /\ UNCHANGED << level, now, function_results_cache, csv_file, img_files, rg,
                    qp, history, fc,
                    drv, json_files, sleeps >>

\* select_table lines 104-118; an error of the model call returns None
SQSelect ==
    /\ sq.pc = "call" /\ sq.op = "select_table"
    /\ calls' = [ calls EXCEPT !.model = @ + 1 ]
    /\ \E response \in SelectionResponses :
         IF response.kind = "raise"
         THEN /\ sq' = SQReturn(sq, [ raised |-> FALSE, value |-> None ])
              /\ UNCHANGED << sqtMem, cache_files >>
         ELSE SQSaveAndReturn(Str(Strip(response.text)))
    /\ UNCHANGED << level, now, function_results_cache, csv_file, img_files, rg,
                    qp, history, fc,
                    drv, json_files, sleeps >>

\* generate_query lines 136-150; an error of the model call returns None
SQGenerate ==
    /\ sq.pc = "call" /\ sq.op = "generate_query"
    /\ calls' = [ calls EXCEPT !.model = @ + 1 ]
    /\ \E response \in QueryResponses :
         IF response.kind = "raise"
         THEN /\ sq' = SQReturn(sq, [ raised |-> FALSE, value |-> None ])
              /\ UNCHANGED << sqtMem, cache_files >>
         ELSE SQSaveAndReturn(Str(_clean_sql_query(response.text)))
    /\ UNCHANGED << level, now, function_results_cache, csv_file, img_files, rg,
                    qp, history, fc,
                    drv, json_files, sleeps >>


(***************************************************************************)
(* Direct calls of the cached operations.                                  *)
(***************************************************************************)

Idle == sq.pc = "idle" /\ rg.pc = "idle" /\ qp.pc = "idle"

Results1 == search_sample([ kind |-> "answers", answers |-> << Blob1 >> ])
Results2 == search_sample([ kind |-> "answers", answers |-> << Blob2, Blob1 >> ])

\* the dataset the tables are qualified with
dataset_id == << "test_dataset" >>

DirectArgs(pair) ==
    [ question |-> pair[1], search_results |-> Results1,
      selected_table |-> dataset_id \o << "." >> \o T1,
      generated_sql |-> pair[2], expected_table |-> None,
      table_selection_is_correct |-> None ]

CallGetSearchResults ==
    /\ level = "ops" /\ Idle /\ Len(history) < MaxCalls
    /\ \E question \in Questions :
         SQEnter("get_search_results", [ question |-> question ], "env")
    /\ calls' = NoCalls
    /\ sleeps' = NoSleeps
    /\ UNCHANGED << level, now, function_results_cache, cache_files, csv_file,
                    img_files, rg, qp, history, fc,
                    drv, json_files >>

CallSelectTable ==
    /\ level = "ops" /\ Idle /\ Len(history) < MaxCalls
    /\ \E question \in Questions, search_results \in { Results1, Results2 } :
         SQEnter("select_table",
                 [ question |-> question, search_results |-> search_results ], "env")
    /\ calls' = NoCalls
    /\ sleeps' = NoSleeps
    /\ UNCHANGED << level, now, function_results_cache, cache_files, csv_file,
                    img_files, rg, qp, history, fc,
                    drv, json_files >>

CallGenerateQuery ==
    /\ level = "ops" /\ Idle /\ Len(history) < MaxCalls
    /\ \E question \in Questions, i \in { 1, 2 } :
         SQEnter("generate_query",
                 [ question |-> question, table_info |-> Results2[i].content ], "env")
    /\ calls' = NoCalls
    /\ sleeps' = NoSleeps
    /\ UNCHANGED << level, now, function_results_cache, cache_files, csv_file,
                    img_files, rg, qp, history, fc,
                    drv, json_files >>

CallProcessQuestion ==
    /\ level \in { "ops", "rg" } /\ Idle /\ Len(history) < MaxCalls
    /\ \E pair \in DirectPairs : RGEnter(DirectArgs(pair), "env")
    /\ calls' = NoCalls
    /\ sleeps' = NoSleeps
    /\ UNCHANGED << level, now, sqtMem, cache_files, csv_file, img_files, sq,
                    qp, history, fc,
                    drv, json_files >>

\* a direct call returns: note what it was given, what it returned and
\* the underlying calls it made
ReturnSQ ==
    /\ sq.pc = "done" /\ sq.caller = "env"
    /\ history' = Append(history,
                     [ op |-> sq.op, args |-> sq.args, key |-> sq.cache_key,
                       hit |-> sq.hit, stored |-> sq.stored, ret |-> sq.ret,
                       calls |-> calls ])
    /\ sq' = SQIdle
    /\ UNCHANGED << level, now, memVars, cache_files, csv_file, img_files, rg,
                    qp, calls, fc,
                    drv, json_files, sleeps >>

ReturnRG ==
    /\ rg.pc = "done" /\ rg.caller = "env"
    /\ history' = Append(history,
                     [ op |-> "process_question", args |-> rg.args,
                       key |-> rg.cache_key, hit |-> rg.hit, stored |-> rg.stored,
                       ret |-> rg.ret, calls |-> calls, events |-> rg.events,
                       raised_at |-> rg.raised_at ])
    /\ rg' = RGIdle
    /\ UNCHANGED << level, now, memVars, cache_files, csv_file, img_files, sq,
                    qp, calls, fc,
                    drv, json_files, sleeps >>

(***************************************************************************)
(* TableSelector.select_table and QueryProcessor.process_question.         *)
(***************************************************************************)

\* str.replace: every non-overlapping occurrence of old, left to right
RECURSIVE Replace(_, _, _)
Replace(s, old, new) ==
    IF old = << >>
    THEN new \o Concat([ i \in 1..Len(s) |-> << s[i] >> \o new ])
    ELSE IF Len(s) < Len(old) THEN s
    ELSE IF SubSeq(s, 1, Len(old)) = old
    THEN new \o Replace(SubSeq(s, Len(old) + 1, Len(s)), old, new)
    ELSE << Head(s) >> \o Replace(Tail(s), old, new)

Bool(b) == [ kind |-> "bool", val |-> b ]

\* TableSelector.select_table: the stripped text, None when the model fails
select_table(response) ==
    IF response.kind = "raise" THEN None ELSE Str(Strip(response.text))

\* the first result whose content contains "tableId: <table_id>", else None
_get_table_info(search_results, table_id) ==
    LET found == SelectSeq(search_results,
                     LAMBDA result :
                         IsSubstring(<< "tableId:", " " >> \o table_id, result.content))
    IN  IF found = << >> THEN None ELSE Str(found[1].content)

_create_error_result(question, error) ==
    [ success |-> FALSE, question |-> question, error |-> error, timestamp |-> now ]

QPIdle == [ pc |-> "idle" ]

QPEnter(question, expected_table, caller) ==
    qp' = [ pc |-> "search", caller |-> caller, question |-> question,
            expected_table |-> expected_table, failure |-> "none" ]

\* process_question returns `ret`
QPReturn(frame, ret) ==
    Update(frame, [ pc |-> "done", ret |-> [ raised |-> FALSE, value |-> ret ] ])

\* an early return of an error record; `failure` names the stage that failed
QPFail(frame, failure, error) ==
    QPReturn([ frame EXCEPT !.failure = failure ],
             _create_error_result(frame.question, error))

\* a variant without the try/except: the exception reaches the caller
QPExceptPropagates(frame, failure, error) ==
    Update(frame, [ pc |-> "done", failure |-> failure,
                    ret |-> [ raised |-> TRUE, error |-> error ] ])

\* lines 121-122: whatever is raised inside process_question becomes an
\* error record
QPExcept(frame, failure, error) == QPFail(frame, failure, error)

\* lines 66-75: the search, not cached
QPSearch ==
    /\ qp.pc = "search"
    /\ calls' = [ calls EXCEPT !.search = @ + 1 ]
    /\ \E outcome \in SearchOutcomes :
         IF outcome.kind = "raise"
         THEN qp' = QPExcept(qp, "search raised", "HTTPError")
         ELSE LET search_results == search_sample(outcome)
              IN  IF search_results = << >>
                  THEN qp' = QPFail(qp, "no search results", "no search results")
                  ELSE qp' = Update(qp, [ pc |-> "select",
                                          search_results |-> search_results ])
    /\ UNCHANGED << level, now, memVars, cache_files, csv_file, img_files, sq, rg,
                    history, fc,
                    drv, json_files, sleeps >>

\* lines 77-80: the table selection, not cached
QPSelectTable ==
    /\ qp.pc = "select"
    /\ calls' = [ calls EXCEPT !.model = @ + 1 ]
    /\ \E response \in SelectionResponses :
         LET selected_table == select_table(response)
         IN  IF ~Truthy(selected_table)
             THEN qp' = QPFail(qp, "table selection", "table selection failed")
             ELSE qp' = Update(qp, [ pc |-> "generate",
                                     selected_table |-> selected_table.text ])
    /\ UNCHANGED << level, now, memVars, cache_files, csv_file, img_files, sq, rg,
                    history, fc,
                    drv, json_files, sleeps >>

\* lines 82-91: look the table up, qualify it, ask the cached generate_query
QPGenerateQuery ==
    /\ qp.pc = "generate"
    /\ LET table_info == _get_table_info(qp.search_results, qp.selected_table)
           qualified_table == dataset_id \o << "." >> \o qp.selected_table
       IN  IF ~Truthy(table_info)
           THEN /\ qp' = QPFail(qp, "table info", "table info not found")
                /\ UNCHANGED << sq, sqtMem >>
           ELSE /\ qp' = Update(qp, [ pc |-> "generating",
                                      qualified_table |-> qualified_table ])
                /\ SQEnter("generate_query",
                           [ question |-> qp.question,
                             table_info |-> Replace(table_info.text, qp.selected_table,
                                                    qualified_table) ],
                           "qp")
    /\ UNCHANGED << level, now, function_results_cache, cache_files, csv_file,
                    img_files, rg, calls, history, fc,
                    drv, json_files, sleeps >>

\* lines 91-103: generate_query returned; hand over to the Result Generator
QPProcessResult ==
    /\ qp.pc = "generating" /\ sq.pc = "done" /\ sq.caller = "qp"
    /\ sq' = SQIdle
    /\ LET generated_sql == sq.ret.value
       IN  IF ~Truthy(generated_sql)
           THEN /\ qp' = QPFail(qp, "SQL generation", "SQL generation failed")
                /\ UNCHANGED << rg, function_results_cache >>
           ELSE /\ qp' = Update(qp, [ pc |-> "processing",
                                      generated_sql |-> generated_sql.text ])
                /\ RGEnter([ question |-> qp.question,
                             search_results |-> qp.search_results,
                             selected_table |-> qp.qualified_table,
                             generated_sql |-> generated_sql.text,
                             expected_table |-> qp.expected_table,
                             table_selection_is_correct |->
                                 IF Truthy(qp.expected_table)
                                 THEN Bool(qp.selected_table = qp.expected_table.text)
                                 ELSE None ],
                           "qp")
    /\ UNCHANGED << level, now, sqtMem, cache_files, csv_file, img_files, calls,
                    history, fc,
                    drv, json_files, sleeps >>

\* the keywords _log_result passes to log_query
QPLogKwargs ==
    { "question", "search_results", "selected_table", "generated_sql",
      "expected_table", "is_correct" }

\* lines 105-119: update the record the Result Generator returned (the
\* cached dictionary itself on a cache hit), log it if it succeeded
QPFinish ==
    /\ qp.pc = "processing" /\ rg.pc = "done" /\ rg.caller = "qp"
    /\ rg' = RGIdle
    /\ LET result == Update(rg.ret,
                       [ question |-> qp.question,
                         search_results |-> qp.search_results,
                         selected_table |-> qp.selected_table,
                         generated_sql |-> qp.generated_sql,
                         expected_table |-> qp.expected_table,
                         timestamp |-> now ])
       IN  /\ function_results_cache' =
                 IF rg.alias THEN Put(function_results_cache, rg.cache_key, result)
                 ELSE function_results_cache
           /\ IF result.success
              THEN IF LogQueryRaises(QPLogKwargs)
                   THEN /\ qp' = QPExcept(qp, "logging",
                                    "log_query() got an unexpected keyword argument")
                        /\ UNCHANGED csv_file
                   ELSE /\ csv_file' = LogQueryRows(csv_file, result.question,
                                                    result.expected_table)
                        /\ qp' = QPReturn(qp, result)
              ELSE /\ qp' = QPReturn([ qp EXCEPT !.failure = rg.raised_at ], result)
                   /\ UNCHANGED csv_file
    /\ UNCHANGED << level, now, sqtMem, cache_files, img_files, sq, calls,
                    history, fc,
                    drv, json_files, sleeps >>

QPStep ==
    \/ QPSearch
    \/ QPSelectTable
    \/ QPGenerateQuery
    \/ QPProcessResult
    \/ QPFinish

RGStep ==
    \/ RGExecuteQuery
    \/ RGSelectFunction
    \/ RGDispatch
    \/ RGCompose
    \/ RGSaveCache
    \/ RGLogResults

SQStep ==
    \/ SQSearch
    \/ SQSelect
    \/ SQGenerate

FCIdle == [ pc |-> "idle" ]
DrvIdle == [ pc |-> "idle" ]

\* a fresh process in a fresh working directory
InitProcess ==
    /\ now = 0
    /\ search_results_cache = EmptyDict
    /\ table_selection_cache = EmptyDict
    /\ query_generation_cache = EmptyDict
    /\ function_results_cache = EmptyDict
    /\ cache_files = [ t \in CacheTypes |-> EmptyDict ]
    /\ csv_file = << >>
    /\ img_files = {}
    /\ sq = SQIdle
    /\ rg = RGIdle
    /\ qp = QPIdle
    /\ calls = NoCalls
    /\ sleeps = NoSleeps
    /\ json_files = EmptyDict
    /\ history = << >>

InitCache ==
    /\ level = "ops"
    /\ InitProcess
    /\ drv = DrvIdle
    /\ fc = FCIdle

NextCache ==
    \/ CallGetSearchResults
    \/ CallSelectTable
    \/ CallGenerateQuery
    \/ CallProcessQuestion
    \/ SQStep
    \/ RGStep
    \/ ReturnSQ
    \/ ReturnRG

\* one process making direct calls of the cached operations
SpecCache == InitCache /\ [][NextCache]_vars

\* the process ends and a new one starts in the same output directory: the
\* constructors make empty memory caches, the cache files stay
NewProcess ==
    /\ level = "ops" /\ Idle
    /\ memVars # << EmptyDict, EmptyDict, EmptyDict, EmptyDict >>
    /\ search_results_cache' = EmptyDict
    /\ table_selection_cache' = EmptyDict
    /\ query_generation_cache' = EmptyDict
    /\ function_results_cache' = EmptyDict
    /\ UNCHANGED << level, now, cache_files, csv_file, img_files, sq, rg, qp,
                    calls, history, fc, drv, json_files, sleeps >>

NextProcesses ==
    \/ NextCache
    \/ NewProcess

\* processes following one another in one output directory, each making
\* direct calls of the cached operations
SpecProcesses == InitCache /\ [][NextProcesses]_vars

InitRG ==
    /\ level = "rg"
    /\ InitProcess
    /\ drv = DrvIdle
    /\ fc = FCIdle

NextRG ==
    \/ CallProcessQuestion
    \/ RGStep
    \/ ReturnRG

\* one process making direct calls of ResultGenerator.process_question, the
\* model answering with every kind of function call
SpecRG == InitRG /\ [][NextRG]_vars

\* the expected table of each test question, None when there is none
expected_tables == [ question \in Questions |->
                       IF question = Q1 THEN Str(T1) ELSE None ]

\* a direct call of QueryProcessor.process_question
CallQuestion ==
    /\ level = "question" /\ Idle /\ Len(history) < MaxCalls
    /\ \E question \in Questions :
         QPEnter(question, expected_tables[question], "env")
    /\ calls' = NoCalls
    /\ sleeps' = NoSleeps
    /\ UNCHANGED << level, now, memVars, cache_files, csv_file, img_files, sq, rg,
                    history, fc, drv, json_files >>

ReturnQP ==
    /\ qp.pc = "done" /\ qp.caller = "env"
    /\ history' = Append(history,
                     [ op |-> "QueryProcessor.process_question",
                       question |-> qp.question, failure |-> qp.failure,
                       ret |-> qp.ret, calls |-> calls ])
    /\ qp' = QPIdle
    /\ UNCHANGED << level, now, memVars, cache_files, csv_file, img_files, sq, rg,
                    calls, fc, drv, sleeps, json_files >>

(***************************************************************************)
(* The batch drivers: QueryProcessor.process_questions and                 *)
(* BatchProcessor.process_batch.                                           *)
(***************************************************************************)

\* questions in one list, and the batch sizes tried
MaxQuestions == 3
MaxBatchSize == 2

\* the default of the drivers' request_wait parameter
RequestWait == 3

\* the batch_wait settings tried: shorter than a chunk takes, and the default
ShortBatchWait == 4
DefaultBatchWait == 60
BatchWaits == { ShortBatchWait, DefaultBatchWait }

\* every question list of length n
RECURSIVE ListsOf(_)
ListsOf(n) ==
    IF n = 0 THEN { << >> }
    ELSE { Append(l, q) : l \in ListsOf(n - 1), q \in Questions }

QuestionLists == UNION { ListsOf(n) : n \in 0..MaxQuestions }

Min(a, b) == IF a < b THEN a ELSE b
Max(a, b) == IF a < b THEN b ELSE a

\* the keywords BatchProcessor.process_batch passes to log_query
BatchLogKwargs ==
    { "question", "search_results", "selected_table", "generated_sql",
      "executed_function", "function_result", "final_answer", "output_file" }

\* JSONOutputManager.save_json: the file is named by prefix and second
save_json(data, prefix) == Put(json_files, << prefix, now >>, data)

DrvPrefix(op) ==
    IF op = "process_questions" THEN "query_results" ELSE "batch_results"

\* the driver is entered: the results dictionary, then the first chunk
DrvEnter(op, questions, batch_size, batch_wait, show_progress) ==
    [ pc |-> IF questions = << >> THEN "save" ELSE "question",
      op |-> op, questions |-> questions, batch_size |-> batch_size,
      batch_wait |-> batch_wait, request_wait |-> RequestWait,
      show_progress |-> show_progress,
      i |-> 0, k |-> 0, batch_start_time |-> 0, batch_waits |-> 0,
      processed |-> << >>,
      results |-> [ total_questions |-> Len(questions), successful_queries |-> 0,
                    failed_questions |-> << >>, details |-> << >>,
                    timestamp |-> 0 ] ]

\* the driver raises `error` to its caller
DrvRaise(frame, error) ==
    Update(frame, [ pc |-> "done", ret |-> [ raised |-> TRUE, error |-> error ] ])

\* the next question of the chunk is handed to process_question; the first
\* question of a chunk notes the chunk's start time
DrvProcessQuestion ==
    /\ drv.pc = "question" /\ qp.pc = "idle"
    /\ LET question == drv.questions[drv.k + 1]
       IN  /\ QPEnter(question,
                      IF drv.op = "process_questions" THEN expected_tables[question]
                      ELSE None,
                      "driver")
           /\ drv' = Update(drv,
                       [ pc |-> "processing",
                         processed |-> Append(drv.processed, question),
                         batch_start_time |->
                             IF drv.k = drv.i THEN now ELSE drv.batch_start_time ])
    /\ UNCHANGED << level, now, memVars, cache_files, csv_file, img_files, sq, rg,
                    calls, history, fc, sleeps, json_files >>

\* a variant that does not record a failed question
DrvTallyDropsFailures ==
    /\ drv.pc = "processing" /\ qp.pc = "done" /\ qp.caller = "driver"
    /\ qp' = QPIdle
    /\ now' = now + drv.request_wait
    /\ sleeps' = [ sleeps EXCEPT !.request = @ + 1 ]
    /\ LET result  == qp.ret.value
           results == IF result.success
                      THEN [ drv.results EXCEPT
                               !.successful_queries = @ + 1,
                               !.details = Append(@, result) ]
                      ELSE drv.results
           frame   == Update(drv, [ results |-> results, k |-> drv.k + 1 ])
           last    == Min(drv.i + drv.batch_size, Len(drv.questions))
       IN  IF drv.op = "process_batch" /\ result.success
              /\ LogQueryRaises(BatchLogKwargs)
           THEN drv' = DrvRaise(frame,
                                "log_query() got an unexpected keyword argument")
           ELSE drv' = [ frame EXCEPT !.pc = IF drv.k + 1 = last THEN "wait"
                                             ELSE "question" ]
    /\ UNCHANGED << level, memVars, cache_files, csv_file, img_files, sq, rg,
                    calls, history, fc, json_files >>

\* process_question returned: sleep, count the result, and (process_batch
\* only) log a success; then the next question or the end of the chunk
DrvTally ==
    /\ drv.pc = "processing" /\ qp.pc = "done" /\ qp.caller = "driver"
    /\ qp' = QPIdle
    /\ now' = now + drv.request_wait
    /\ sleeps' = [ sleeps EXCEPT !.request = @ + 1 ]
    /\ LET result  == qp.ret.value
           results == IF result.success
                      THEN [ drv.results EXCEPT
                               !.successful_queries = @ + 1,
                               !.details = Append(@, result) ]
                      ELSE [ drv.results EXCEPT
                               !.failed_questions = Append(@, result) ]
           frame   == Update(drv, [ results |-> results, k |-> drv.k + 1 ])
           last    == Min(drv.i + drv.batch_size, Len(drv.questions))
       IN  IF drv.op = "process_batch" /\ result.success
              /\ LogQueryRaises(BatchLogKwargs)
           THEN drv' = DrvRaise(frame,
                                "log_query() got an unexpected keyword argument")
           ELSE drv' = [ frame EXCEPT !.pc = IF drv.k + 1 = last THEN "wait"
                                             ELSE "question" ]
    /\ UNCHANGED << level, memVars, cache_files, csv_file, img_files, sq, rg,
                    calls, history, fc, json_files >>

\* a variant that waits after the last chunk as well
DrvBatchWaitAlways ==
    /\ drv.pc = "wait"
    /\ LET more == drv.i + drv.batch_size < Len(drv.questions)
           batch_duration == now - drv.batch_start_time
           adjusted_wait_time == Max(0, drv.batch_wait - batch_duration)
       IN  /\ drv' = Update(drv,
                       [ pc |-> IF more THEN "question" ELSE "save",
                         i |-> drv.i + drv.batch_size,
                         batch_waits |-> drv.batch_waits + 1 ])
           /\ IF adjusted_wait_time > 0
              THEN /\ now' = now + adjusted_wait_time
                   /\ sleeps' = [ sleeps EXCEPT !.batch = @ + 1 ]
              ELSE UNCHANGED << now, sleeps >>
    /\ UNCHANGED << level, memVars, cache_files, csv_file, img_files, sq, rg, qp,
                    calls, history, fc, json_files >>

\* a variant that sleeps the whole batch_wait, whatever the chunk took
DrvBatchWaitFull ==
    /\ drv.pc = "wait"
    /\ LET more == drv.i + drv.batch_size < Len(drv.questions)
       IN  /\ drv' = Update(drv,
                       [ pc |-> IF more THEN "question" ELSE "save",
                         i |-> drv.i + drv.batch_size,
                         batch_waits |-> drv.batch_waits + (IF more THEN 1 ELSE 0) ])
           /\ IF more
              THEN /\ now' = now + drv.batch_wait
                   /\ sleeps' = [ sleeps EXCEPT !.batch = @ + 1 ]
              ELSE UNCHANGED << now, sleeps >>
    /\ UNCHANGED << level, memVars, cache_files, csv_file, img_files, sq, rg, qp,
                    calls, history, fc, json_files >>

\* the end of a chunk: wait before the next chunk, if there is one
DrvBatchWait ==
    /\ drv.pc = "wait"
    /\ LET more == drv.i + drv.batch_size < Len(drv.questions)
           batch_duration == now - drv.batch_start_time
           adjusted_wait_time == Max(0, drv.batch_wait - batch_duration)
       IN  /\ drv' = Update(drv,
                       [ pc |-> IF more THEN "question" ELSE "save",
                         i |-> drv.i + drv.batch_size,
                         batch_waits |-> drv.batch_waits + (IF more THEN 1 ELSE 0) ])
           /\ IF more /\ adjusted_wait_time > 0
              THEN /\ now' = now + adjusted_wait_time
                   /\ sleeps' = [ sleeps EXCEPT !.batch = @ + 1 ]
              ELSE UNCHANGED << now, sleeps >>
    /\ UNCHANGED << level, memVars, cache_files, csv_file, img_files, sq, rg, qp,
                    calls, history, fc, json_files >>

\* the results are saved and the summary is printed; the summary divides
\* by the number of questions
DrvSave ==
    /\ drv.pc = "save"
    /\ json_files' = save_json(drv.results, DrvPrefix(drv.op))
    /\ IF drv.show_progress /\ drv.results.total_questions = 0
       THEN drv' = DrvRaise(drv, "ZeroDivisionError")
       ELSE drv' = Update(drv, [ pc |-> "done",
                                 ret |-> [ raised |-> FALSE, value |-> drv.results ] ])
    /\ UNCHANGED << level, now, memVars, cache_files, csv_file, img_files, sq, rg,
                    qp, calls, history, fc, sleeps >>

DrvStep ==
    \/ DrvProcessQuestion
    \/ DrvTally
    \/ DrvBatchWait
    \/ DrvSave

InitQuestion ==
    /\ level = "question"
    /\ InitProcess
    /\ drv = DrvIdle
    /\ fc = FCIdle

NextQuestion ==
    \/ CallQuestion
    \/ QPStep
    \/ SQGenerate
    \/ RGStep
    \/ ReturnQP

\* one process making direct calls of QueryProcessor.process_question
SpecQuestion == InitQuestion /\ [][NextQuestion]_vars

\* a fresh process runs one driver once
InitBatch ==
    /\ level = "batch"
    /\ InitProcess
    /\ fc = FCIdle
    /\ \E questions \in QuestionLists, batch_size \in 1..MaxBatchSize,
          batch_wait \in BatchWaits :
         \/ \E show_progress \in BOOLEAN :
              drv = DrvEnter("process_questions", questions, batch_size, batch_wait,
                             show_progress)
         \/ drv = DrvEnter("process_batch", questions, batch_size, batch_wait, TRUE)

NextBatch ==
    \/ DrvStep
    \/ QPStep
    \/ SQGenerate
    \/ RGStep

\* one run of a batch driver
SpecBatch == InitBatch /\ [][NextBatch]_vars

(***************************************************************************)
(* The parser on its own: format_content applied to a blob, then to its    *)
(* own output.                                                             *)
(***************************************************************************)

\* schema entries in one blob
MaxSchemaEntries == 2

Fields == { Field("qty", "INTEGER"), Field("day", "DATE") }

RECURSIVE SchemasOf(_)
SchemasOf(n) ==
    IF n = 0 THEN { << >> }
    ELSE { Append(schema, field) : schema \in SchemasOf(n - 1), field \in Fields }

Schemas == UNION { SchemasOf(n) : n \in 0..MaxSchemaEntries }

Descriptions == { << "d" >>, << "d", " ", "x" >> }

\* the values a blob is written from
BlobValues ==
    { [ tableId |-> T1, description |-> description, category |-> << "c" >>,
        schema |-> schema, start_time |-> << "s" >>, end_time |-> << "e" >> ] :
      description \in Descriptions, schema \in Schemas }

BlobOf(values, missing) ==
    MakeBlob(values.tableId, values.description, values.category, values.schema,
             values.start_time, values.end_time, missing)

InitParser ==
    /\ level = "parser"
    /\ InitProcess
    /\ drv = DrvIdle
    /\ \E values \in BlobValues, missing \in Markers \cup { "none" } :
         fc = [ pc |-> "input", values |-> values, missing |-> missing,
                content |-> BlobOf(values, missing) ]

\* format_content(content)
FormatContent ==
    /\ fc.pc = "input"
    /\ fc' = Update(fc, [ pc |-> "formatted", output |-> format_content(fc.content) ])
    /\ UNCHANGED << level, now, memVars, cache_files, csv_file, img_files, sq, rg,
                    qp, calls, history, drv, sleeps, json_files >>

\* format_content applied to its own output
FormatAgain ==
    /\ fc.pc = "formatted"
    /\ fc' = Update(fc, [ pc |-> "reformatted", again |-> format_content(fc.output) ])
    /\ UNCHANGED << level, now, memVars, cache_files, csv_file, img_files, sq, rg,
                    qp, calls, history, drv, sleeps, json_files >>

NextParser ==
    \/ FormatContent
    \/ FormatAgain

SpecParser == InitParser /\ [][NextParser]_vars

(***************************************************************************)
(* SQL cleaning on its own: a model output, then _clean_sql_query.         *)
(***************************************************************************)

MaxQueryLen == 5

\* what a model output is made of: fences, the comment sign, blanks, line
\* breaks and SQL text
QueryTokens == { FenceSql, Fence, "#", " ", "\n", "c" }

RawQueries == UNION { [ 1..n -> QueryTokens ] : n \in 0..MaxQueryLen }

InitCleaner ==
    /\ level = "cleaner"
    /\ InitProcess
    /\ drv = DrvIdle
    /\ \E raw_query \in RawQueries : fc = [ pc |-> "raw", query |-> raw_query ]

\* return self._clean_sql_query(raw_query)
CleanSqlQuery ==
    /\ fc.pc = "raw"
    /\ fc' = Update(fc, [ pc |-> "cleaned", cleaned |-> _clean_sql_query(fc.query) ])
    /\ UNCHANGED << level, now, memVars, cache_files, csv_file, img_files, sq, rg,
                    qp, calls, history, drv, sleeps, json_files >>

NextCleaner == CleanSqlQuery

SpecCleaner == InitCleaner /\ [][NextCleaner]_vars

(***************************************************************************)
(* Outlier detection on its own: a list of records, then detect_outliers.  *)
(***************************************************************************)

MaxRows == 6

ColumnValues == { 1, 2, 100 }

DataLists ==
    UNION { [ 1..n -> { [ qty |-> v ] : v \in ColumnValues } ] : n \in 0..MaxRows }

InitAnalyzer ==
    /\ level = "analyzer"
    /\ InitProcess
    /\ drv = DrvIdle
    /\ \E data \in DataLists : fc = [ pc |-> "data", data |-> data ]

\* DataAnalyzer.detect_outliers(data, column_name) with the default threshold
DetectOutliers ==
    /\ fc.pc = "data"
    /\ fc' = Update(fc, [ pc |-> "analyzed",
                          outliers |-> detect_outliers(fc.data, "qty", DefaultThreshold) ])
    /\ UNCHANGED << level, now, memVars, cache_files, csv_file, img_files, sq, rg,
                    qp, calls, history, drv, sleeps, json_files >>

NextAnalyzer == DetectOutliers

SpecAnalyzer == InitAnalyzer /\ [][NextAnalyzer]_vars

(***************************************************************************)
(* The logger on its own: one process calling log_query.                   *)
(***************************************************************************)

MaxLogCalls == 4

InitLogger ==
    /\ level = "logger"
    /\ InitProcess
    /\ drv = DrvIdle
    /\ fc = FCIdle

\* log_query(question, search_results, selected_table, generated_sql) with
\* and without expected_table and is_correct
LogQuery ==
    /\ level = "logger"
    /\ Len(SelectSeq(csv_file, LAMBDA row : row.kind = "data")) < MaxLogCalls
    /\ \E question \in Questions, expected_table \in { None, Str(T1) } :
         csv_file' = LogQueryRows(csv_file, question, expected_table)
    /\ UNCHANGED << level, now, memVars, cache_files, img_files, sq, rg, qp,
                    calls, history, fc, drv, sleeps, json_files >>

NextLogger == LogQuery

SpecLogger == InitLogger /\ [][NextLogger]_vars

(***************************************************************************)
(* Output files on their own: graphs and JSON files written by one         *)
(* process while the clock runs.                                           *)
(***************************************************************************)

MaxOutputs == 3
MaxSeconds == 2

InitOutputs ==
    /\ level = "outputs"
    /\ InitProcess
    /\ drv = DrvIdle
    /\ fc = FCIdle

\* GraphGenerator.generate_time_series / generate_bar_chart on data that
\* has the columns
GenerateGraph ==
    /\ level = "outputs" /\ Len(history) < MaxOutputs
    /\ \E base_name \in GraphTypes :
         LET output_file == GraphPath(base_name, Row5, "qty", "qty", now)
         IN  /\ img_files' = img_files \cup { output_file.file }
             /\ history' = Append(history,
                              [ op |-> "generate_graph", name |-> base_name,
                                path |-> output_file.file ])
    /\ UNCHANGED << level, now, memVars, cache_files, csv_file, sq, rg, qp,
                    calls, fc, drv, sleeps, json_files >>

\* JSONOutputManager.save_json(data, prefix)
SaveJson ==
    /\ level = "outputs" /\ Len(history) < MaxOutputs
    /\ \E prefix \in { "query_results", "batch_results" } :
         /\ json_files' = save_json([ total_questions |-> Len(history) ], prefix)
         /\ history' = Append(history,
                          [ op |-> "save_json", name |-> prefix,
                            path |-> << prefix, now >> ])
    /\ UNCHANGED << level, now, memVars, cache_files, csv_file, img_files, sq,
                    rg, qp, calls, fc, drv, sleeps >>

\* the clock reaches the next second
SecondPasses ==
    /\ level = "outputs" /\ now < MaxSeconds
    /\ now' = now + 1
    /\ UNCHANGED << level, memVars, cache_files, csv_file, img_files, sq, rg,
                    qp, calls, history, fc, drv, sleeps, json_files >>

NextOutputs ==
    \/ GenerateGraph
    \/ SaveJson
    \/ SecondPasses

SpecOutputs == InitOutputs /\ [][NextOutputs]_vars

(***************************************************************************)
(* Two processes calling get_search_results against one cache directory.   *)
(* fc[p] is process p: its memory cache and its running call.              *)
(***************************************************************************)

MaxEvents == 6

Procs == { 1, 2 }

InitShared ==
    /\ level = "shared"
    /\ InitProcess
    /\ drv = DrvIdle
    /\ fc = [ p \in Procs |-> [ pc |-> "idle", memory |-> EmptyDict ] ]

\* lines 68-76: the memory check, then the file is loaded and checked
SharedLookup(p) ==
    /\ fc[p].pc = "idle" /\ Len(history) < MaxEvents
    /\ \E question \in Questions :
         IF question \in DOMAIN fc[p].memory
         THEN /\ fc' = [ fc EXCEPT ![p] = Update(@,
                           [ pc |-> "done", question |-> question,
                             ret |-> fc[p].memory[question] ]) ]
              /\ history' = Append(history,
                               [ proc |-> p, event |-> "memory", key |-> question ])
         ELSE LET cache == cache_files["search_results"]
              IN  IF question \in DOMAIN cache
                  THEN /\ fc' = [ fc EXCEPT ![p] = Update(@,
                                    [ pc |-> "done", question |-> question,
                                      memory |-> Put(fc[p].memory, question,
                                                     cache[question]),
                                      ret |-> cache[question] ]) ]
                       /\ history' = Append(history,
                                        [ proc |-> p, event |-> "file",
                                          key |-> question ])
                  ELSE /\ fc' = [ fc EXCEPT ![p] = Update(@,
                                    [ pc |-> "call", question |-> question,
                                      cache |-> cache ]) ]
                       /\ history' = Append(history,
                                        [ proc |-> p, event |-> "load",
                                          key |-> question ])
    /\ UNCHANGED << level, now, memVars, cache_files, csv_file, img_files, sq, rg,
                    qp, calls, drv, sleeps, json_files >>

\* a variant that writes the file as it is now plus the new entry
SharedStoreMerged(p) ==
    /\ fc[p].pc = "call"
    /\ calls' = [ calls EXCEPT !.search = @ + 1 ]
    /\ LET results == Results1
           cache   == Put(cache_files["search_results"], fc[p].question, results)
       IN  /\ cache_files' = [ cache_files EXCEPT !["search_results"] = cache ]
           /\ fc' = [ fc EXCEPT ![p] = Update(@,
                        [ pc |-> "done", cache |-> cache,
                          memory |-> Put(fc[p].memory, fc[p].question, results),
                          ret |-> results ]) ]
    /\ history' = Append(history,
                     [ proc |-> p, event |-> "store", key |-> fc[p].question ])
    /\ UNCHANGED << level, now, memVars, csv_file, img_files, sq, rg, qp, drv,
                    sleeps, json_files >>

\* lines 78-86: search_sample answered; the result is put into memory and
\* into the dictionary loaded before, and that dictionary is written
SharedStore(p) ==
    /\ fc[p].pc = "call"
    /\ calls' = [ calls EXCEPT !.search = @ + 1 ]
    /\ LET results == Results1
           cache   == Put(fc[p].cache, fc[p].question, results)
       IN  /\ cache_files' = [ cache_files EXCEPT !["search_results"] = cache ]
           /\ fc' = [ fc EXCEPT ![p] = Update(@,
                        [ pc |-> "done", cache |-> cache,
                          memory |-> Put(fc[p].memory, fc[p].question, results),
                          ret |-> results ]) ]
    /\ history' = Append(history,
                     [ proc |-> p, event |-> "store", key |-> fc[p].question ])
    /\ UNCHANGED << level, now, memVars, csv_file, img_files, sq, rg, qp, drv,
                    sleeps, json_files >>

\* the call returns to the caller of process p
SharedReturn(p) ==
    /\ fc[p].pc = "done"
    /\ fc' = [ fc EXCEPT ![p] = [ pc |-> "idle", memory |-> fc[p].memory ] ]
    /\ UNCHANGED << level, now, memVars, cache_files, csv_file, img_files, sq, rg,
                    qp, calls, history, drv, sleeps, json_files >>

\* a later run: process p ends and starts again with empty memory
SharedRestart(p) ==
    /\ fc[p].pc = "idle" /\ fc[p].memory # EmptyDict
    /\ fc' = [ fc EXCEPT ![p] = [ pc |-> "idle", memory |-> EmptyDict ] ]
    /\ UNCHANGED << level, now, memVars, cache_files, csv_file, img_files, sq, rg,
                    qp, calls, history, drv, sleeps, json_files >>

NextShared ==
    \E p \in Procs :
        \/ SharedLookup(p)
        \/ SharedStore(p)
        \/ SharedReturn(p)
        \/ SharedRestart(p)

SpecShared == InitShared /\ [][NextShared]_vars

(***************************************************************************)
(* The test drivers that count table selections and successful queries:    *)
(* QueryTester.test_queries, SQLQueryGeneratorTester.process_questions and *)
(* OptimizedQueryProcessor.process_all_questions.                          *)
(***************************************************************************)

MaxTestCases == 2

TestDrivers == { "QueryTester", "SQLQueryGeneratorTester", "OptimizedQueryProcessor" }

\* questions_dict flattened: (question, expected table) in dictionary order
TestCaseLists ==
    UNION { [ 1..n -> Questions \X { T1, T2 } ] : n \in 1..MaxTestCases }

\* the results dictionary each driver starts from
NewResults ==
    [ total_questions |-> 0, correct_table_selections |-> 0,
      successful_queries |-> 0, failed_questions |-> << >>, details |-> << >> ]

\* _create_error_result, without its timestamp
TesterErrorResult(question, expected_table, error) ==
    [ success |-> FALSE, question |-> question,
      expected_table |-> expected_table, error |-> error ]

\* what the pipeline of one question may give: the table selected (None when
\* the selection fails), whether the table's schema is found in the search
\* results, the query generated (None when the generation fails), or an
\* exception raised by a step
PipelineOutcomes ==
    [ selected_table : { None, Str(T1), Str(T2) }, table_info : BOOLEAN,
      sql_query : { None, Str(Sql1) }, raises : BOOLEAN ]

\* _process_single_question / process_question of the two cached testers
_process_single_question(question, expected_table, o) ==
    IF o.raises THEN TesterErrorResult(question, expected_table, "exception")
    ELSE IF o.selected_table = None
    THEN TesterErrorResult(question, expected_table, "table selection failed")
    ELSE IF ~o.table_info
    THEN TesterErrorResult(question, expected_table, "table info missing")
    ELSE IF o.sql_query = None
    THEN TesterErrorResult(question, expected_table, "query generation failed")
    ELSE [ success |-> TRUE, question |-> question,
           expected_table |-> expected_table,
           selected_table |-> o.selected_table.text,
           is_correct |-> (o.selected_table.text = expected_table) ]

InitTesters ==
    /\ level = "testers"
    /\ InitProcess
    /\ drv = DrvIdle
    /\ \E d \in TestDrivers, test_cases \in TestCaseLists :
         fc = [ pc |-> "count", driver |-> d, test_cases |-> test_cases, i |-> 1,
                results |-> NewResults, selected_table |-> None ]

\* the flattening loop: one test case appended, total_questions incremented
TesterCount ==
    /\ level = "testers" /\ fc.pc = "count"
    /\ fc' = [ fc EXCEPT !.results.total_questions = @ + 1,
                         !.i = IF fc.i = Len(fc.test_cases) THEN 1 ELSE @ + 1,
                         !.pc = IF fc.i = Len(fc.test_cases) THEN "run" ELSE @ ]
    /\ UNCHANGED << level, now, memVars, cache_files, csv_file, img_files, sq, rg,
                    qp, calls, history, drv, sleeps, json_files >>

\* QueryTester.test_queries, one iteration up to the selection check: the
\* search, the selection, and the count of a correct selection
TestSelect ==
    /\ level = "testers" /\ fc.pc = "run" /\ fc.driver = "QueryTester"
    /\ fc.i <= Len(fc.test_cases)
    /\ LET question       == fc.test_cases[fc.i][1]
           expected_table == fc.test_cases[fc.i][2]
       IN  \E raises \in BOOLEAN, selected_table \in { None, Str(T1), Str(T2) } :
             fc' = IF raises
                   THEN [ fc EXCEPT !.results.failed_questions =
                              Append(@, TesterErrorResult(question,
                                            expected_table, "exception")),
                                    !.i = @ + 1 ]
                   ELSE IF selected_table = None
                   THEN [ fc EXCEPT !.results.failed_questions =
                              Append(@, TesterErrorResult(question,
                                            expected_table, "table selection failed")),
                                    !.i = @ + 1 ]
                   ELSE [ fc EXCEPT !.results.correct_table_selections =
                              IF selected_table.text = expected_table
                              THEN @ + 1 ELSE @,
                                    !.selected_table = selected_table,
                                    !.pc = "generate" ]
    /\ UNCHANGED << level, now, memVars, cache_files, csv_file, img_files, sq, rg,
                    qp, calls, history, drv, sleeps, json_files >>

\* QueryTester.test_queries, the rest of the iteration: the schema lookup,
\* the generation, the count of a successful query and its log row
TestGenerate ==
    /\ level = "testers" /\ fc.pc = "generate"
    /\ LET question       == fc.test_cases[fc.i][1]
           expected_table == fc.test_cases[fc.i][2]
           failed(error)  ==
               [ fc EXCEPT !.results.failed_questions =
                     Append(@, TesterErrorResult(question, expected_table, error)),
                           !.selected_table = None, !.i = @ + 1, !.pc = "run" ]
       IN  \E raises \in BOOLEAN, table_info \in BOOLEAN,
              sql_query \in { None, Str(Sql1) } :
             IF raises
             THEN fc' = failed("exception") /\ UNCHANGED csv_file
             ELSE IF ~table_info
             THEN fc' = failed("table info missing") /\ UNCHANGED csv_file
             ELSE IF sql_query = None
             THEN fc' = failed("query generation failed") /\ UNCHANGED csv_file
             ELSE /\ csv_file' = LogQueryRows(csv_file, question, None)
                  /\ fc' = [ fc EXCEPT
                        !.results.successful_queries = @ + 1,
                        !.results.details =
                            Append(@, [ success |-> TRUE, question |-> question,
                                        expected_table |-> expected_table,
                                        selected_table |-> fc.selected_table.text,
                                        is_correct |->
                                          (fc.selected_table.text = expected_table) ]),
                        !.selected_table = None, !.i = @ + 1, !.pc = "run" ]
    /\ UNCHANGED << level, now, memVars, cache_files, img_files, sq, rg,
                    qp, calls, history, drv, sleeps, json_files >>

\* process_questions / process_all_questions, one iteration: the question is
\* processed and its result is tallied
TesterProcessQuestion ==
    /\ level = "testers" /\ fc.pc = "run" /\ fc.driver # "QueryTester"
    /\ fc.i <= Len(fc.test_cases)
    /\ LET question       == fc.test_cases[fc.i][1]
           expected_table == fc.test_cases[fc.i][2]
       IN  \E o \in PipelineOutcomes :
             LET result == _process_single_question(question, expected_table, o)
             IN  IF result.success
                 THEN /\ csv_file' = LogQueryRows(csv_file, question,
                                                  Str(expected_table))
                      /\ fc' = [ fc EXCEPT
                            !.results.successful_queries = @ + 1,
                            !.results.correct_table_selections =
                                IF result.is_correct THEN @ + 1 ELSE @,
                            !.results.details = Append(@, result),
                            !.i = @ + 1 ]
                 ELSE /\ UNCHANGED csv_file
                      /\ fc' = [ fc EXCEPT
                            !.results.failed_questions = Append(@, result),
                            !.i = @ + 1 ]
    /\ UNCHANGED << level, now, memVars, cache_files, img_files, sq, rg,
                    qp, calls, history, drv, sleeps, json_files >>

\* the loop is over: process_questions saves the results, all three return them
TesterFinish ==
    /\ level = "testers" /\ fc.pc = "run" /\ fc.i > Len(fc.test_cases)
    /\ fc' = [ fc EXCEPT !.pc = "done" ]
    /\ json_files' = IF fc.driver = "SQLQueryGeneratorTester"
                     THEN Put(json_files, << "test_results", now >>, fc.results)
                     ELSE json_files
    /\ UNCHANGED << level, now, memVars, cache_files, csv_file, img_files, sq, rg,
                    qp, calls, history, drv, sleeps >>

NextTesters ==
    \/ TesterCount
    \/ TestSelect
    \/ TestGenerate
    \/ TesterProcessQuestion
    \/ TesterFinish

SpecTesters == InitTesters /\ [][NextTesters]_vars

(***************************************************************************)
(* Properties.                                                             *)
(***************************************************************************)

\* C1 (cache idempotence): of two consecutive calls of one cached operation
\* with the identical key, the first of which missed the cache and whose
\* underlying operation answered, both return the identical result and the
\* underlying operation (search call, model call, warehouse query) ran
\* exactly once across the two.
C1_CacheIdempotence ==
    \A i \in 1..(Len(history) - 1) :
        LET a == history[i]
            b == history[i + 1]
            Underlying(e) ==
                CASE e.op = "get_search_results" -> e.calls.search
                  [] e.op \in { "select_table", "generate_query" } -> e.calls.model
                  [] e.op = "process_question" -> e.calls.warehouse
        IN  (a.op = b.op /\ a.key = b.key /\ a.hit = "none" /\ a.stored)
                => /\ a.ret = b.ret
                   /\ Underlying(a) + Underlying(b) = 1

\* C4 (Result Generator success path): a call on an uncached key whose
\* query returned rows, whose function call was recognized with a
\* recognized sub-mode and whose answer was composed returns success = true
\* with the executed function, its result and the final answer; with rows
\* [{qty: 5}] and analyze_data(max, qty) the function_result is 5.0.
C4_SuccessPath ==
    LET recognized ==
            /\ rg.response.kind = "call"
            /\ \/ /\ rg.response.name = "analyze_data"
                  /\ rg.response.args.analysis_type \in AnalysisTypes
               \/ /\ rg.response.name = "generate_graph"
                  /\ rg.response.args.graph_type \in GraphTypes
    IN  ( /\ rg.pc = "done" /\ rg.hit = "none"
          /\ "result" \in DOMAIN rg
          /\ rg.result.final_answer # None
          /\ recognized )
            => /\ rg.ret.success
               /\ rg.ret.executed_function = Str(<< rg.response.name >>)
               /\ rg.ret.function_result = rg.result.function_result
               /\ rg.ret.final_answer = rg.result.final_answer
               /\ (rg.query_result.rows = Row5 /\ rg.response = Analyze("max", "qty"))
                     => rg.ret.function_result = Float(5, 1)

\* C5 (stage ordering): in every call of ResultGenerator.process_question
\* the stages happen only in the order query execution, function
\* selection, function dispatch, answer composition, each at most once, and
\* the answer is composed only after the query returned rows and the
\* function-selection call completed.
C5_StageOrdering ==
    rg.pc # "idle" =>
        LET Rank(e) == CASE e = "query" -> 1 [] e = "select" -> 2
                         [] e = "dispatch" -> 3 [] e = "compose" -> 4
            stages == SelectSeq(rg.events,
                          LAMBDA e : e \in { "query", "select", "dispatch", "compose" })
        IN  /\ \A i, j \in 1..Len(stages) :
                   i < j => Rank(stages[i]) < Rank(stages[j])
            /\ Contains(stages, "compose")
                   => /\ Contains(stages, "query")
                      /\ rg.query_result # None
                      /\ rg.query_result.rows # << >>
                      /\ Contains(stages, "select")
                      /\ "response" \in DOMAIN rg

\* C5: a call that went through all four stages has returned
C5_Witness ==
    /\ rg.pc = "done"
    /\ SelectSeq(rg.events, LAMBDA e : e \notin { "save", "log" })
          = << "query", "select", "dispatch", "compose" >>

\* C6 (query execution failure is a hard stop): a call whose query
\* returned None or no rows makes no model call, runs no function, leaves the
\* memory cache and the cache file as they were and returns success = false.
C6_QueryFailureStops ==
    ( /\ rg.pc = "done" /\ rg.hit = "none"
      /\ (rg.query_result = None \/ rg.query_result.rows = << >>) )
        => /\ calls.model = 0
           /\ ~Contains(rg.events, "dispatch")
           /\ function_results_cache = rg.entry_memory
           /\ cache_files["function_results"] = rg.entry_file
           /\ rg.ret.success = FALSE

\* C6: a call whose query returned an empty list has returned, after an
\* earlier call whose query failed
C6_Witness ==
    /\ rg.pc = "done" /\ rg.hit = "none"
    /\ rg.query_result = List(<< >>)
    /\ \E i \in 1..Len(history) : history[i].raised_at = "execute"

\* C7 (unknown sub-mode is terminal): a call whose function call names
\* analyze_data with an unrecognized analysis_type, or generate_graph with an
\* unrecognized graph_type, returns success = false, composes no answer,
\* stores nothing in either cache tier and dispatches exactly once.
C7_UnknownSubModeTerminal ==
    LET unknown ==
            /\ "response" \in DOMAIN rg
            /\ rg.response.kind = "call"
            /\ \/ /\ rg.response.name = "analyze_data"
                  /\ rg.response.args.analysis_type \notin AnalysisTypes
               \/ /\ rg.response.name = "generate_graph"
                  /\ rg.response.args.graph_type \notin GraphTypes
    IN  (rg.pc = "done" /\ rg.hit = "none" /\ unknown)
            => /\ rg.ret.success = FALSE
               /\ ~Contains(rg.events, "compose")
               /\ calls.model = 1
               /\ function_results_cache = rg.entry_memory
               /\ cache_files["function_results"] = rg.entry_file
               /\ Len(SelectSeq(rg.events, LAMBDA e : e = "dispatch")) = 1

\* C7: a call given generate_graph(pie) has returned, after an earlier call
\* given analyze_data(median)
C7_Witness ==
    /\ rg.pc = "done" /\ rg.hit = "none"
    /\ "response" \in DOMAIN rg
    /\ rg.response = Graph("pie", "qty")
    /\ \E i \in 1..Len(history) : history[i].raised_at = "dispatch"

\* C3 (per-question error boundary): QueryProcessor.process_question never
\* raises to its caller, and a failure at any stage yields a record with
\* success = false that carries the question, an error text and a timestamp.
C3_ErrorBoundary ==
    qp.pc = "done" =>
        /\ ~qp.ret.raised
        /\ qp.failure # "none" =>
              /\ qp.ret.value.success = FALSE
              /\ qp.ret.value.question = qp.question
              /\ { "error", "timestamp" } \subseteq DOMAIN qp.ret.value

\* C3: a call that failed in the function dispatch has returned, after a
\* call whose search raised
C3_Witness ==
    /\ qp.pc = "done" /\ qp.failure = "dispatch"
    /\ \E i \in 1..Len(history) : history[i].failure = "search raised"

\* C2 (batch isolation): a batch driver given a non-empty question list
\* hands every question to process_question exactly once, in list order,
\* whatever the outcomes, and returns its results dictionary.
C2_BatchIsolation ==
    (drv.pc # "idle" /\ drv.questions # << >>) =>
        /\ drv.processed = SubSeq(drv.questions, 1, Len(drv.processed))
        /\ drv.pc = "done" =>
              /\ ~drv.ret.raised
              /\ drv.processed = drv.questions

\* C8 (batch wait counts), as the claim states it: a completed run over
\* N >= 1 questions with batch size B made ceil(N/B) - 1 inter-chunk waits
\* and exactly N sleeps of request_wait length.
C8_WaitCountsAsClaimed ==
    (drv.pc = "done" /\ ~drv.ret.raised /\ drv.questions # << >>) =>
        LET N == Len(drv.questions)
            B == drv.batch_size
        IN  /\ drv.batch_waits = ((N + B - 1) \div B) - 1
            /\ sleeps.request + sleeps.rg = N

\* C8 (batch wait counts), amended: the driver itself sleeps request_wait
\* once per question it has counted, and ResultGenerator.process_question
\* sleeps once more for each warehouse query that returned rows; a completed
\* run over N >= 1 questions with batch size B reached the inter-chunk wait
\* ceil(N/B) - 1 times, sleeping there only when the chunk took less than
\* batch_wait, and made between N and 2N request_wait sleeps in all.
C8_WaitCounts ==
    drv.pc # "idle" =>
        LET N == Len(drv.questions)
            B == drv.batch_size
        IN  /\ sleeps.request = drv.k
            /\ sleeps.rg = calls.rows
            /\ sleeps.rg <= Len(drv.processed)
            /\ sleeps.batch <= drv.batch_waits
            /\ (drv.pc = "done" /\ ~drv.ret.raised /\ N >= 1) =>
                  /\ drv.batch_waits = ((N + B - 1) \div B) - 1
                  /\ sleeps.request = N
                  /\ sleeps.request + sleeps.rg \in N..(2 * N)

\* C8: a completed run of several chunks in which the Result Generator
\* slept too and one inter-chunk wait had no time left to sleep
C8_Witness ==
    /\ drv.pc = "done" /\ ~drv.ret.raised
    /\ sleeps.rg > 0
    /\ drv.batch_waits > 1
    /\ sleeps.batch < drv.batch_waits

\* C9 (parser tolerance of a missing marker): for a blob that lacks exactly
\* one marker, every section that follows the missing marker is empty in
\* format_content's output.
C9_MissingMarker ==
    (fc.pc = "formatted" /\ fc.missing \in Markers) =>
        LET lines == SplitAll(fc.output, "\n")
            n     == Len(lines)
            Section(name) ==
                CASE name = "description" -> SubSeq(lines[3], 3, Len(lines[3]))
                  [] name = "category" -> SubSeq(lines[2], 3, Len(lines[2]))
                  [] name = "schema" -> SubSeq(lines, 5, n - 3)
                  [] name = "start_time" -> SubSeq(lines[n - 1], 7, Len(lines[n - 1]))
                  [] name = "end_time" -> SubSeq(lines[n], 7, Len(lines[n]))
            Following ==
                CASE fc.missing = "description:" ->
                       { "description", "category", "schema", "start_time", "end_time" }
                  [] fc.missing = "category:" ->
                       { "category", "schema", "start_time", "end_time" }
                  [] fc.missing = "schema:" -> { "schema", "start_time", "end_time" }
                  [] fc.missing \in { "time_range:", "start_time:" } ->
                       { "start_time", "end_time" }
                  [] fc.missing = "end_time:" -> { "end_time" }
        IN  \A name \in Following : Section(name) = << >>

\* C10 (parser round trip): for a well-formed blob, format_content's
\* output carries every section's value, and format_content applied to its
\* own output reproduces that output.
C10_RoundTrip ==
    (fc.pc = "reformatted" /\ fc.missing = "none") =>
        /\ fc.output = FormatOutput(fc.values)
        /\ fc.again = fc.output


\* C11 (section order): for every input, the content format_content returns
\* carries its section headers in the order tableId, description, category,
\* schema, time_range, start_time, end_time, the order in which the raw
\* markers are parsed.
C11_SectionOrder ==
    fc.pc = "formatted" =>
        LET order == << "tableId:", "description:", "category:", "schema:",
                        "time_range:", "start_time:", "end_time:" >>
        IN  /\ \A i \in 1..Len(order) : Contains(fc.output, order[i])
            /\ \A i \in 1..(Len(order) - 1) :
                  IndexOf(fc.output, order[i]) < IndexOf(fc.output, order[i + 1])


\* C12 (SQL cleaning): for every model output, what _clean_sql_query returns
\* holds no markdown fence, no line whose first non-blank character is the
\* comment sign, and no leading or trailing whitespace; a fenced output that
\* holds only the query comes back as exactly the query.
C12_CleanSql ==
    fc.pc = "cleaned" =>
        LET lines == SplitAll(fc.cleaned, "\n")
        IN  /\ ~Contains(fc.cleaned, FenceSql)
            /\ ~Contains(fc.cleaned, Fence)
            /\ \A i \in 1..Len(lines) :
                  LStrip(lines[i]) = << >> \/ Head(LStrip(lines[i])) # "#"
            /\ fc.cleaned # << >> =>
                  /\ Head(fc.cleaned) \notin Whitespace
                  /\ fc.cleaned[Len(fc.cleaned)] \notin Whitespace
            /\ fc.query = << FenceSql, "\n" >> \o Sql1 \o << "\n", Fence >> =>
                  fc.cleaned = Sql1

C12_Witness ==
    /\ fc.pc = "cleaned"
    /\ fc.query = << FenceSql, "\n" >> \o Sql1 \o << "\n", Fence >>
    /\ fc.cleaned = Sql1


\* C13 (outlier threshold): for the column values 1, 1, 1, 1, 100 and the
\* default threshold, detect_outliers returns exactly the record holding 100.
C13_OutlierOfFive ==
    (fc.pc = "analyzed"
       /\ fc.data = << [ qty |-> 1 ], [ qty |-> 1 ], [ qty |-> 1 ], [ qty |-> 1 ],
                       [ qty |-> 100 ] >>)
        => fc.outliers = << [ qty |-> 100 ] >>


\* C14 (idempotent re-run): a call of QueryProcessor.process_question for a
\* question that an earlier call carried through every stage (search, table
\* selection, SQL generation, result generation) makes no search call and no
\* model call for the table selection or the SQL generation.
C14_RerunNoCalls ==
    \A i \in 1..Len(history) : \A j \in (i + 1)..Len(history) :
        ( /\ history[i].question = history[j].question
          /\ history[i].failure \in { "none", "log" } )
            => /\ history[j].calls.search = 0
               /\ history[j].calls.model = 0


\* C15 (cache lookup protocol): a cached operation whose key is in the
\* memory mapping returns the memory's value at once; else, if the key is in
\* the cache file, it returns the file's value and puts it into memory; the
\* underlying operation (search call, model call, warehouse query) runs only
\* when the key is in neither; and when a lookup that ran the underlying
\* operation returns its value, memory and file hold the key with that value.
C15_LookupProtocol ==
    [][ LET MemoryNext(op) ==
                CASE op = "get_search_results" -> search_results_cache'
                  [] op = "select_table" -> table_selection_cache'
                  [] op = "generate_query" -> query_generation_cache'
            Answer(v) == [ raised |-> FALSE, value |-> v ]
        IN  /\ (sq.pc = "idle" /\ sq'.pc # "idle") =>
                  LET op     == sq'.op
                      k      == sq'.cache_key
                      memory == MemoryOf(op)
                      file   == cache_files[CacheTypeOf(op)]
                  IN  /\ k \in DOMAIN memory =>
                            /\ sq'.pc = "done" /\ sq'.ret = Answer(memory[k])
                            /\ calls' = NoCalls
                      /\ (k \notin DOMAIN memory /\ k \in DOMAIN file) =>
                            /\ sq'.pc = "done" /\ sq'.ret = Answer(file[k])
                            /\ calls' = NoCalls
                            /\ k \in DOMAIN MemoryNext(op)
                            /\ MemoryNext(op)[k] = file[k]
            /\ (sq.pc = "call" /\ calls' # calls) =>
                  /\ sq.cache_key \notin DOMAIN MemoryOf(sq.op)
                  /\ sq.cache_key \notin DOMAIN cache_files[CacheTypeOf(sq.op)]
            /\ (sq.pc = "call" /\ sq'.pc = "done" /\ ~sq'.ret.raised
                  /\ (sq.op = "get_search_results" \/ sq'.ret.value.kind # None.kind)) =>
                  LET file == cache_files'[CacheTypeOf(sq.op)]
                  IN  /\ sq.cache_key \in DOMAIN MemoryNext(sq.op)
                      /\ MemoryNext(sq.op)[sq.cache_key] = sq'.ret.value
                      /\ sq.cache_key \in DOMAIN file
                      /\ file[sq.cache_key] = sq'.ret.value
            /\ (rg.pc = "idle" /\ rg'.pc # "idle") =>
                  LET k      == rg'.cache_key
                      memory == function_results_cache
                      file   == cache_files["function_results"]
                  IN  /\ k \in DOMAIN memory =>
                            /\ rg'.pc = "done" /\ rg'.ret = memory[k]
                            /\ calls' = NoCalls
                      /\ (k \notin DOMAIN memory /\ k \in DOMAIN file) =>
                            /\ rg'.pc = "done" /\ rg'.ret = file[k]
                            /\ calls' = NoCalls
                            /\ k \in DOMAIN function_results_cache'
                            /\ function_results_cache'[k] = file[k]
            /\ (rg.pc \notin { "idle", "done" } /\ calls' # calls) =>
                  /\ rg.cache_key \notin DOMAIN rg.entry_memory
                  /\ rg.cache_key \notin DOMAIN rg.entry_file
            /\ (rg.pc \notin { "idle", "done" } /\ rg'.pc = "done"
                  /\ rg'.ret.success) =>
                  LET file == cache_files'["function_results"]
                  IN  /\ rg.cache_key \in DOMAIN function_results_cache'
                      /\ function_results_cache'[rg.cache_key] = rg'.ret
                      /\ rg.cache_key \in DOMAIN file
                      /\ file[rg.cache_key] = rg'.ret
      ]_vars

\* C15: a new process found the key in the cache file and put the file's
\* value into its memory
C15_Witness ==
    /\ sq.pc = "done" /\ sq.hit = "file"
    /\ sq.cache_key \in DOMAIN MemoryOf(sq.op)
    /\ MemoryOf(sq.op)[sq.cache_key] = cache_files[CacheTypeOf(sq.op)][sq.cache_key]


\* C16 (no eviction): within one process, a key that is in a cache file is
\* in that file with the same value after every later step of the cached
\* operations, whatever the keys they work on; the key set of each cache
\* file only grows.
C16_NoEviction ==
    [][ \A t \in CacheTypes : \A k \in DOMAIN cache_files[t] :
            /\ k \in DOMAIN cache_files'[t]
            /\ cache_files'[t][k] = cache_files[t][k] ]_vars

\* C16: a cache file that was written a second time holds both keys
C16_Witness ==
    \E t \in CacheTypes : Cardinality(DOMAIN cache_files[t]) >= 2


\* C17 (hallucinated identifier): when the string the table selector
\* returned is the tableId of no candidate of the search results, the
\* question ends with the table-info failure, and neither an SQL-generation
\* model call nor a warehouse query was made for it.
C17_HallucinatedId ==
    LET TableIdOf(content) ==
            LET line == SplitAll(content, "\n")[1]
            IN  SubSeq(line, 3, Len(line))
    IN  ( /\ qp.pc = "done"
          /\ "selected_table" \in DOMAIN qp
          /\ \A i \in 1..Len(qp.search_results) :
                TableIdOf(qp.search_results[i].content) # qp.selected_table )
            => /\ qp.failure = "table info"
               /\ calls.model = 1
               /\ calls.warehouse = 0


\* C18 (one log row per processed question): when a run of
\* QueryProcessor.process_questions over N questions has returned, the CSV
\* log holds exactly N data rows, one for each processed question, whatever
\* the outcomes.
C18_RowPerQuestion ==
    (drv.pc = "done" /\ drv.op = "process_questions" /\ ~drv.ret.raised) =>
        LET rows == SelectSeq(csv_file, LAMBDA row : row.kind = "data")
        IN  /\ Len(rows) = Len(drv.questions)
            /\ \A i \in 1..Len(rows) : rows[i].question = drv.questions[i]


\* C19 (logging never interrupts): every call of QueryLogger.log_query made
\* by QueryProcessor._log_result, ResultGenerator._log_results or
\* BatchProcessor.process_batch returns normally, and the caller goes on with
\* the result it had.
C19_LoggingReturns ==
    /\ (rg.pc = "done" /\ rg.stored) =>
          /\ rg.raised_at # "log"
          /\ rg.ret = rg.result
    /\ qp.pc = "done" => qp.failure # "logging"
    /\ (drv.pc = "done" /\ drv.ret.raised) =>
          drv.ret.error # "log_query() got an unexpected keyword argument"


\* C20 (table selection keyed by the question alone): a call of
\* SQLQueryGeneratorTester.select_table for a question whose selection an
\* earlier call stored returns the stored identifier and makes no model
\* call, whatever candidate list it is given, also one that does not hold
\* the stored identifier.
C20_KeyByQuestion ==
    \A i \in 1..Len(history) : \A j \in (i + 1)..Len(history) :
        ( /\ history[i].op = "select_table" /\ history[j].op = "select_table"
          /\ history[i].args.question = history[j].args.question
          /\ history[i].stored )
            => /\ history[j].ret = history[i].ret
               /\ history[j].calls.model = 0

\* C20: the second call was given other candidates, none of which is the
\* stored identifier, and was answered from the cache
C20_Witness ==
    \E i \in 1..Len(history) : \E j \in (i + 1)..Len(history) :
        /\ history[i].op = "select_table" /\ history[j].op = "select_table"
        /\ history[i].args.question = history[j].args.question
        /\ history[i].stored
        /\ history[i].ret.value = Str(T2)
        /\ history[j].args.search_results = Results1
        /\ history[i].args.search_results = Results2
        /\ history[j].hit = "memory"
        /\ history[j].ret.value = Str(T2)


\* C21 as claimed (key collision of the plain concatenation): of two calls
\* of ResultGenerator.process_question with distinct (question, SQL) pairs
\* whose concatenations question + SQL are equal, the first of which stored
\* its result, the second returns the first pair's record and runs no
\* warehouse query.
C21_PlainConcatenationCollides ==
    \A i \in 1..Len(history) : \A j \in (i + 1)..Len(history) :
        LET a == history[i]
            b == history[j]
        IN  ( /\ a.op = "process_question" /\ b.op = "process_question"
              /\ << a.args.question, a.args.generated_sql >>
                   # << b.args.question, b.args.generated_sql >>
              /\ a.args.question \o a.args.generated_sql
                   = b.args.question \o b.args.generated_sql
              /\ a.stored )
                => /\ b.calls.warehouse = 0
                   /\ b.ret.success
                   /\ b.ret.question = a.args.question
                   /\ b.ret.generated_sql = a.args.generated_sql

\* C21 (composite key collision): the function-result key is question, an
\* underscore, SQL; of two calls with distinct (question, SQL) pairs whose
\* texts question + "_" + SQL are equal, the first of which stored its
\* result, the second returns the first pair's record and runs no warehouse
\* query.
C21_KeyCollision ==
    \A i \in 1..Len(history) : \A j \in (i + 1)..Len(history) :
        LET a == history[i]
            b == history[j]
        IN  ( /\ a.op = "process_question" /\ b.op = "process_question"
              /\ << a.args.question, a.args.generated_sql >>
                   # << b.args.question, b.args.generated_sql >>
              /\ a.args.question \o << "_" >> \o a.args.generated_sql
                   = b.args.question \o << "_" >> \o b.args.generated_sql
              /\ a.stored )
                => /\ b.calls.warehouse = 0
                   /\ b.ret.success
                   /\ b.ret.question = a.args.question
                   /\ b.ret.generated_sql = a.args.generated_sql

\* C21: the call for (Q2, Sql1) was answered with the record stored for
\* (Q1, Sql2)
C21_Witness ==
    \E i \in 1..Len(history) : \E j \in (i + 1)..Len(history) :
        /\ history[i].op = "process_question" /\ history[j].op = "process_question"
        /\ history[i].args.question = Q1 /\ history[i].args.generated_sql = Sql2
        /\ history[j].args.question = Q2 /\ history[j].args.generated_sql = Sql1
        /\ history[i].stored
        /\ history[j].hit = "memory"
        /\ history[j].ret.question = Q1


\* C22 (inter-chunk pacing): at the end of every chunk but the last the
\* driver sleeps exactly max(0, batch_wait - elapsed), elapsed being the time
\* since the chunk started; the sleep is never negative, the next chunk
\* starts no earlier than batch_wait after the chunk before it started, and
\* nothing is slept at the end of the last chunk.
C22_InterChunkPacing ==
    [][ /\ drv.pc = "wait" =>
              LET elapsed == now - drv.batch_start_time
                  last    == drv.i + drv.batch_size >= Len(drv.questions)
                  wait    == IF drv.batch_wait - elapsed > 0
                             THEN drv.batch_wait - elapsed ELSE 0
              IN  /\ now' >= now
                  /\ last => (now' = now /\ sleeps' = sleeps)
                  /\ ~last => now' = now + wait
        /\ (drv.pc = "question" /\ drv'.pc = "processing" /\ drv.k = drv.i
              /\ drv.i > 0) =>
              drv'.batch_start_time >= drv.batch_start_time + drv.batch_wait
      ]_vars

\* C22: a chunk that took less than batch_wait was followed by a sleep, and
\* the next chunk is about to start exactly batch_wait after it started
C22_Witness ==
    /\ drv.pc = "question" /\ drv.i > 0 /\ drv.k = drv.i
    /\ sleeps.batch > 0
    /\ now = drv.batch_start_time + drv.batch_wait


\* C23 (CSV header written once): after any sequence of log_query calls of
\* one process on one CSV path the file holds exactly one header row, its
\* first row; only the call that creates the file writes a header.
C23_HeaderOnce ==
    csv_file # << >> =>
        /\ csv_file[1].kind = "header"
        /\ \A i \in 2..Len(csv_file) : csv_file[i].kind = "data"

\* C23: several calls have logged to the file
C23_Witness ==
    /\ level = "logger"
    /\ Len(csv_file) = MaxLogCalls + 1
    /\ csv_file[1].kind = "header"

\* C30 (CSV rows match the header width): after any sequence of log_query
\* calls on one CSV path, with and without expected_table, every data row
\* has as many columns as the header row of the file.
C30_RowsMatchHeader ==
    \A i \in 1..Len(csv_file) : csv_file[i].width = csv_file[1].width


\* C24 (timestamped output names are unique): any two graphs generated with
\* the same base name, and any two JSON files saved with the same prefix,
\* have distinct paths, so that a later output never overwrites an earlier
\* one.
C24_UniqueNames ==
    \A i \in 1..Len(history) : \A j \in (i + 1)..Len(history) :
        (history[i].op = history[j].op /\ history[i].name = history[j].name)
            => history[i].path # history[j].path


\* C25 (unlocked cache file under two processes): the file a process writes
\* holds what that process loaded plus its own entry, so every entry another
\* process persisted between the load and the save is absent from the file
\* afterwards; and a lookup of a key that is in neither the memory nor the
\* file goes on to the underlying operation.
C25_LostUpdate ==
    [][ level = "shared" =>
          \A p \in Procs :
            LET file  == cache_files["search_results"]
                after == cache_files'["search_results"]
            IN  /\ (fc[p].pc = "call" /\ fc'[p].pc = "done") =>
                      /\ DOMAIN after = DOMAIN fc[p].cache \cup { fc[p].question }
                      /\ \A k \in DOMAIN file :
                            (k \notin DOMAIN fc[p].cache /\ k # fc[p].question)
                                => k \notin DOMAIN after
                /\ (fc[p].pc = "idle" /\ fc'[p].pc # "idle"
                      /\ fc'[p].question \notin DOMAIN fc[p].memory
                      /\ fc'[p].question \notin DOMAIN file) =>
                      fc'[p].pc = "call"
      ]_vars

\* C25: one process loaded the file, the other persisted its entry, the
\* first saved over it, and a later run repeated the search for the lost key
C25_Witness ==
    /\ level = "shared"
    /\ \E h, i, j, l \in 1..Len(history) :
         /\ h < i /\ i < j /\ j < l
         /\ history[h].event = "load" /\ history[i].event = "store"
         /\ history[j].event = "store" /\ history[l].event = "store"
         /\ history[h].proc = history[j].proc /\ history[h].key = history[j].key
         /\ history[i].proc # history[j].proc /\ history[i].key # history[j].key
         /\ history[l].key = history[i].key
         /\ calls.search = 3


C27_FailureLeavesCache ==
    (rg.pc = "done" /\ ~rg.ret.success) =>
        /\ function_results_cache = rg.entry_memory
        /\ cache_files["function_results"] = rg.entry_file


\* C28 (memory tier agrees with file tier): in one process, between the
\* calls of QueryProcessor.process_question, every key of the Result
\* Generator's memory mapping is in the function_results file with an equal
\* record; a caller that received a cached record has not changed what the
\* cache holds.
C28_MemoryAgreesWithFile ==
    qp.pc \in { "idle", "done" } =>
        \A k \in DOMAIN function_results_cache :
            /\ k \in DOMAIN cache_files["function_results"]
            /\ cache_files["function_results"][k] = function_results_cache[k]


\* C29: in every driver that counts both, at every point of the run
\* correct_table_selections <= successful_queries <= total_questions: a
\* question is counted as a correct table selection only if it is also
\* counted as a successful query.
C29_CounterOrdering ==
    level = "testers" =>
        /\ fc.results.correct_table_selections <= fc.results.successful_queries
        /\ fc.results.successful_queries <= fc.results.total_questions

=============================================================================
